---------------------------- MODULE Spec2Model ----------------------------
(***************************************************************************)
(* A model of library_il_client.LibraryClient and of                      *)
(* library_il_aggregator.SearchAggregator and LibraryAggregator.           *)
(*                                                                         *)
(* Python values are represented as follows.  A str is the sequence of its *)
(* characters (one-character strings); None, where a str is expected, is   *)
(* the value None below.  A dict is the sequence of its (key, value)       *)
(* entries in insertion order.  A raised exception is the name of its      *)
(* class.                                                                  *)
(*                                                                         *)
(* The module holds several state machines, each with its specification:   *)
(*   SpecAggregator  SearchAggregator.search and _merge_and_rank           *)
(*   SpecClient      one LibraryClient: its session, renewal and search    *)
(*   SpecClientLive  SpecClient with the page requests of search answered  *)
(*   SpecFan         close, get_combined_details, login_all and the        *)
(*                   get_all_ calls of an aggregator, one call at a time   *)
(*   SpecFanOut      SpecAggregator and SpecFan together                   *)
(*   SpecFn          the module-level functions and the page parsers       *)
(*   SpecInflight    one aggregator with several calls under way           *)
(* A specification leaves the variables of the others at their idle        *)
(* values.                                                                 *)
(***************************************************************************)
EXTENDS Integers, Sequences, FiniteSets, TLC

VARIABLES
    \* SearchAggregator
    library_slugs,   \* self.library_slugs
    clients,         \* the keys of self._clients
    aggPhase,        \* "idle" | "running" | "done": the position of search()
    taskPc,          \* per task of the gather: "new" | "waiting" | "done"
    taskResult,      \* per task: the tuple search_library returned
    aggRet,          \* the CombinedSearchResults search() returned
    scoreProbe,      \* the last direct evaluation of _calculate_score
    \* LibraryClient
    logged_in,       \* self._logged_in
    username,        \* self._username
    password,        \* self._password
    expired,         \* history: a call raised SessionExpiredError and no login
                     \* has succeeded since
    call,            \* the current or last call: what it was given, the HTTP
                     \* requests it issued, how it ended
    srch,            \* the locals of a search() that is under way
    \* an aggregator and its fan-out calls other than search()
    owner,           \* the class of the aggregator: "SearchAggregator" or
                     \* "LibraryAggregator"
    accounts,        \* LibraryAggregator.accounts
    owned,           \* the keys of self._clients, in insertion order
    session,         \* the keys of the owned clients whose _logged_in is set
    agg_logged_in,   \* LibraryAggregator._logged_in
    fan,             \* the fan-out call under way: its tasks, the list its
                     \* gather returns, which task completed first, its result
    \* the module-level and static functions
    fnCall,          \* the last call of one of them: arguments and result
    \* an aggregator used by several callers at once
    inflight         \* the calls under way on it: the position of close(),
                     \* per id the position of each task and the client it
                     \* holds; history: the clients made per id

aggVars == <<library_slugs, clients, aggPhase, taskPc, taskResult, aggRet, scoreProbe>>
clientVars == <<logged_in, username, password, expired, call, srch>>

fanVars == <<owner, accounts, owned, session, agg_logged_in, fan>>

vars == <<aggVars, clientVars, fanVars, fnCall, inflight>>

---------------------------------------------------------------------------
(* Bounds                                                                  *)

\* the longest item list one portal's search returns
MaxHits == 2
\* the largest best_rank _calculate_score is evaluated at directly
MaxRank == 22
\* the longest list of books renew_books is given
MaxBooks == 2
\* the most rows of the loans table a renewal is answered with
MaxRows == 2
\* the largest max_results search is asked for
MaxResults == 3
\* the most items one results page holds
MaxLinks == 2
\* the longest text normalize_text is given on its own
MaxTextLen == 3

---------------------------------------------------------------------------
(* The values a state machine's variables keep while another one runs      *)

NoCall == [op |-> "none", logged_in_before |-> FALSE, expired_before |-> FALSE,
           requests |-> 0, outcome |-> "none"]
NoSearch == [phase |-> "idle"]

IdleClient ==
    /\ logged_in = FALSE
    /\ username = <<>>
    /\ password = <<>>
    /\ expired = FALSE
    /\ call = NoCall
    /\ srch = NoSearch

IdleAggregator ==
    /\ library_slugs = <<>>
    /\ clients = {}
    /\ aggPhase = "idle"
    /\ taskPc = <<>>
    /\ taskResult = <<>>
    /\ aggRet = [items |-> <<>>, library_info |-> <<>>, errors |-> <<>>]
    /\ scoreProbe = [library_count |-> 0, best_rank |-> 0, score |-> 0]

NoFan == [op |-> "none", phase |-> "idle", tasks |-> <<>>]
NoFnCall == [fn |-> "none", calls |-> 0]
NoInflight == [close |-> "none", skipped |-> "none", tasks |-> <<>>]
IdleFn == fnCall = NoFnCall
IdleInflight == inflight = NoInflight

IdleFan ==
    /\ owner = "none"
    /\ accounts = <<>>
    /\ owned = <<>>
    /\ session = {}
    /\ agg_logged_in = {}
    /\ fan = NoFan

---------------------------------------------------------------------------
(* Python values                                                           *)

None == <<"<None>">>

\* bool(s) of an Optional[str]
Truthy(s) == s /= None /\ s /= <<>>

Max(a, b) == IF a >= b THEN a ELSE b

\* the characters of the model's texts, by the classes re's \w and \s sort
\* them into; every other character is punctuation
LetterOrDigit == {"k", "m", "b", "g", "1"}
WhiteSpace == {" "}
IsWord(c) == c \in LetterOrDigit \/ c = "_"
IsSpace(c) == c \in WhiteSpace

\* re.sub(r'\s+', ' ', s): every maximal run of whitespace becomes one space
RECURSIVE CollapseSpaces(_)
CollapseSpaces(s) ==
    IF s = <<>> THEN <<>>
    ELSE LET rest == CollapseSpaces(Tail(s)) IN
         IF IsSpace(Head(s))
         THEN IF Tail(s) /= <<>> /\ IsSpace(Head(Tail(s))) THEN rest ELSE <<" ">> \o rest
         ELSE <<Head(s)>> \o rest

\* str.strip()
RECURSIVE LStrip(_)
LStrip(s) == IF s /= <<>> /\ IsSpace(Head(s)) THEN LStrip(Tail(s)) ELSE s

RECURSIVE RStrip(_)
RStrip(s) ==
    IF s /= <<>> /\ IsSpace(s[Len(s)]) THEN RStrip(SubSeq(s, 1, Len(s) - 1)) ELSE s

Strip(s) == RStrip(LStrip(s))

NormalizeIdentity(text) == text

NormalizeCollapseFirst(text) ==
    IF text = None THEN None
    ELSE LET n1 == [i \in 1..Len(text) |->
                       IF IsWord(text[i]) \/ IsSpace(text[i]) THEN text[i] ELSE " "]
             n2 == Strip(CollapseSpaces(n1))
             n3 == [i \in 1..Len(n2) |-> IF n2[i] = "_" THEN " " ELSE n2[i]]
         IN  IF n3 /= <<>> THEN n3 ELSE None

normalize_text(text) ==
    IF text = None THEN None
    ELSE LET n1 == [i \in 1..Len(text) |->
                       IF IsWord(text[i]) \/ IsSpace(text[i]) THEN text[i] ELSE " "]
             n2 == [i \in 1..Len(n1) |-> IF n1[i] = "_" THEN " " ELSE n1[i]]
             n3 == Strip(CollapseSpaces(n2))
         IN  IF n3 /= <<>> THEN n3 ELSE None

\* SearchResult.title_author_key
title_author_key(r) == <<normalize_text(r.title), normalize_text(r.author)>>

---------------------------------------------------------------------------
(* The inputs: portals, texts, hits                                        *)

\* the portal slugs, and their order as Python compares str
Slugs == {"a", "b", "c"}
SlugIndex == [s \in Slugs |-> CASE s = "a" -> 1 [] s = "b" -> 2 [] s = "c" -> 3]
SlugLess(s, t) == SlugIndex[s] < SlugIndex[t]

\* the lists of distinct slugs an aggregator is constructed with
SlugLists == {<<"c", "a", "b">>, <<"b", "a">>}

\* what a portal's page says about one title: the fields
\* _parse_search_item fills in (classification, shelf_sign and title_id
\* play no part in merging and are left out)
HitK1 == [title  |-> <<"k", " ", "(", "1", ")">>,
          author |-> <<"b", "-", "g", ",", " ", "m">>,
          series |-> <<"k">>, series_number |-> <<"1">>]
\* the same book as HitK1, punctuated and spaced otherwise
HitK1b == [title  |-> <<"k", " ", " ", "1">>,
           author |-> <<"b", " ", "g", "_", "m">>,
           series |-> None, series_number |-> None]
\* the title of HitK1 with no author
HitK2 == [title  |-> <<"k", " ", "(", "1", ")">>,
          author |-> None,
          series |-> None, series_number |-> None]
HitKinds == {HitK1, HitK1b, HitK2}

SeqsUpTo(S, n) == UNION {[1..k -> S] : k \in 0..n}

\* the SearchResult a client makes of a page entry: it stamps its own slug
Stamp(k, slug) ==
    [title |-> k.title, author |-> k.author, series |-> k.series,
     series_number |-> k.series_number, library_slug |-> slug]

\* str(e) of the exceptions a client's search raises; httpx's timeouts have
\* an empty message
Messages == {<<>>, <<"k", "1">>}

---------------------------------------------------------------------------
(* dict                                                                    *)

DictHas(d, k) == \E i \in 1..Len(d) : d[i].key = k
DictKeys(d) == {d[i].key : i \in 1..Len(d)}
\* d[k] = v: a new key is appended, an old key keeps its place
DictSet(d, k, v) ==
    IF DictHas(d, k)
    THEN [i \in 1..Len(d) |-> IF d[i].key = k THEN [key |-> k, value |-> v] ELSE d[i]]
    ELSE Append(d, [key |-> k, value |-> v])

GatherSlotAsCompleted(i, pcs) ==
    Cardinality({j \in DOMAIN pcs : pcs[j] = "done"}) + 1

\* asyncio.gather(*tasks): the place in the returned list of what the i-th
\* awaitable returns, whichever tasks are done by then
GatherSlot(i, pcs) == i

RECURSIVE Flatten(_)
Flatten(ss) == IF ss = <<>> THEN <<>> ELSE Head(ss) \o Flatten(Tail(ss))

---------------------------------------------------------------------------
(* SearchAggregator._merge_and_rank                                        *)

CalculateScoreNoFloor(library_count, best_rank) == library_count * 10 + (20 - best_rank)

_calculate_score(library_count, best_rank) ==
    LET score == library_count * 10
        rank_bonus == Max(0, 20 - best_rank)
    IN  score + rank_bonus

\* the (slug, rank, result) triples in the order the two nested loops of
\* _merge_and_rank visit them
Traversal(results_by_library) ==
    Flatten([d \in 1..Len(results_by_library) |->
        [i \in 1..Len(results_by_library[d].value) |->
            [slug   |-> results_by_library[d].key,
             rank   |-> results_by_library[d].value[i].rank,
             result |-> results_by_library[d].value[i].result]]])

\* title_author_groups after the triples of t have been added
RECURSIVE GroupAll(_, _)
GroupAll(t, groups) ==
    IF t = <<>> THEN groups
    ELSE LET ta_key == title_author_key(Head(t).result)
             old == IF DictHas(groups, ta_key)
                    THEN (CHOOSE i \in 1..Len(groups) : groups[i].key = ta_key)
                    ELSE 0
             g == IF old = 0 THEN <<>> ELSE groups[old].value
         IN  GroupAll(Tail(t), DictSet(groups, ta_key, Append(g, Head(t))))

KeyLessRankOnly(x, y) == x.rank < y.rank

\* sorted(group, key=lambda x: (x[1], x[0])): a stable sort
KeyLess(x, y) == x.rank < y.rank \/ (x.rank = y.rank /\ SlugLess(x.slug, y.slug))

RECURSIVE SortGroup(_)
SortGroup(g) ==
    IF g = <<>> THEN <<>>
    ELSE LET before == SortGroup(SubSeq(g, 1, Len(g) - 1))
             x == g[Len(g)]
             k == Cardinality({i \in 1..Len(before) : ~KeyLess(x, before[i])})
         IN  SubSeq(before, 1, k) \o <<x>> \o SubSeq(before, k + 1, Len(before))

OnePerLibraryKeepsAll(sorted_group, seen_libraries) ==
    [i \in 1..Len(sorted_group) |-> sorted_group[i].result]

\* one result per library, the best-ranked of each
RECURSIVE OnePerLibrary(_, _)
OnePerLibrary(sorted_group, seen_libraries) ==
    IF sorted_group = <<>> THEN <<>>
    ELSE LET result == Head(sorted_group).result IN
         IF result.library_slug \notin seen_libraries
         THEN <<result>> \o OnePerLibrary(Tail(sorted_group),
                                          seen_libraries \cup {result.library_slug})
         ELSE OnePerLibrary(Tail(sorted_group), seen_libraries)

Combine(group) ==
    LET sorted_group == SortGroup(group)
        library_count == Cardinality({group[i].slug : i \in 1..Len(group)})
        best_result == sorted_group[1].result
        best_rank == sorted_group[1].rank
    IN  [title |-> best_result.title,
         author |-> best_result.author,
         series |-> best_result.series,
         series_number |-> best_result.series_number,
         library_results |-> OnePerLibrary(sorted_group, {}),
         score |-> _calculate_score(library_count, best_rank)]

SortByScoreTiesReversed(combined) ==
    LET RECURSIVE S(_)
        S(c) == IF c = <<>> THEN <<>>
                ELSE LET before == S(SubSeq(c, 1, Len(c) - 1))
                         x == c[Len(c)]
                         k == Cardinality({i \in 1..Len(before) : before[i].score > x.score})
                     IN  SubSeq(before, 1, k) \o <<x>> \o SubSeq(before, k + 1, Len(before))
    IN  S(combined)

\* combined_results.sort(key=lambda x: x.score, reverse=True): a stable sort
RECURSIVE SortByScore(_)
SortByScore(combined) ==
    IF combined = <<>> THEN <<>>
    ELSE LET before == SortByScore(SubSeq(combined, 1, Len(combined) - 1))
             x == combined[Len(combined)]
             k == Cardinality({i \in 1..Len(before) : before[i].score >= x.score})
         IN  SubSeq(before, 1, k) \o <<x>> \o SubSeq(before, k + 1, Len(before))

_merge_and_rank(results_by_library) ==
    LET title_author_groups == GroupAll(Traversal(results_by_library), <<>>)
        combined_results == [g \in 1..Len(title_author_groups) |->
                                Combine(title_author_groups[g].value)]
    IN  SortByScore(combined_results)

---------------------------------------------------------------------------
(* SearchAggregator.search                                                 *)

NoResults == [none |-> TRUE, items |-> <<>>, total_count |-> 0]
NoTuple == [slug |-> "", results |-> NoResults, error |-> None]
NoRet == [items |-> <<>>, library_info |-> <<>>, errors |-> <<>>]
NoProbe == [library_count |-> 0, best_rank |-> 0, score |-> 0]

\* enumerate(results.items)
Enumerate(items) == [i \in 1..Len(items) |-> [rank |-> i - 1, result |-> items[i]]]

\* one pass of the loop over search_results
CollectOne(acc, t) ==
    IF Truthy(t.error)
    THEN [acc EXCEPT !.errors = DictSet(@, t.slug, t.error)]
    ELSE IF ~t.results.none
    THEN [acc EXCEPT
            !.library_info = Append(@, [library_slug  |-> t.slug,
                                        total_count   |-> t.results.total_count,
                                        fetched_count |-> Len(t.results.items)]),
            !.all_results = DictSet(@, t.slug, Enumerate(t.results.items))]
    ELSE acc

RECURSIVE CollectLoop(_, _)
CollectLoop(search_results, acc) ==
    IF search_results = <<>> THEN acc
    ELSE CollectLoop(Tail(search_results), CollectOne(acc, Head(search_results)))

Tasks == 1..Len(library_slugs)

InitAggregator ==
    /\ IdleClient
    /\ IdleFan
    /\ IdleFn
    /\ IdleInflight
    /\ library_slugs \in SlugLists
    /\ clients = {}
    /\ aggPhase = "idle"
    /\ taskPc = <<>>
    /\ taskResult = <<>>
    /\ aggRet = NoRet
    /\ scoreProbe = NoProbe

\* search() up to its await: the tasks of the gather are created
SearchCall ==
    /\ aggPhase = "idle"
    /\ aggPhase' = "running"
    /\ taskPc' = [i \in Tasks |-> "new"]
    /\ taskResult' = [i \in Tasks |-> NoTuple]
    /\ aggRet' = NoRet
    /\ scoreProbe' = NoProbe
    /\ UNCHANGED <<library_slugs, clients>>
    /\ UNCHANGED <<clientVars, fanVars, fnCall, inflight>>

\* search_library up to its await: _get_or_create_client, then the client's
\* search is under way
TaskBegin(i) ==
    /\ aggPhase = "running"
    /\ taskPc[i] = "new"
    /\ clients' = clients \cup {library_slugs[i]}
    /\ taskPc' = [taskPc EXCEPT ![i] = "waiting"]
    /\ UNCHANGED <<library_slugs, aggPhase, taskResult, aggRet, scoreProbe>>
    /\ UNCHANGED <<clientVars, fanVars, fnCall, inflight>>

\* the client's search returns a SearchResults
TaskReturns(i) ==
    /\ aggPhase = "running"
    /\ taskPc[i] = "waiting"
    /\ \E kinds \in SeqsUpTo(HitKinds, MaxHits) :
          taskResult' = [taskResult EXCEPT ![GatherSlot(i, taskPc)] =
              [slug    |-> library_slugs[i],
               results |-> [none  |-> FALSE,
                            items |-> [j \in 1..Len(kinds) |->
                                          Stamp(kinds[j], library_slugs[i])],
                            total_count |-> Len(kinds)],
               error   |-> None]]
    /\ taskPc' = [taskPc EXCEPT ![i] = "done"]
    /\ UNCHANGED <<library_slugs, clients, aggPhase, aggRet, scoreProbe>>
    /\ UNCHANGED <<clientVars, fanVars, fnCall, inflight>>

\* the client's search raises: except Exception returns str(e)
TaskRaises(i) ==
    /\ aggPhase = "running"
    /\ taskPc[i] = "waiting"
    /\ \E msg \in Messages :
          taskResult' = [taskResult EXCEPT ![GatherSlot(i, taskPc)] =
              [slug |-> library_slugs[i], results |-> NoResults, error |-> msg]]
    /\ taskPc' = [taskPc EXCEPT ![i] = "done"]
    /\ UNCHANGED <<library_slugs, clients, aggPhase, aggRet, scoreProbe>>
    /\ UNCHANGED <<clientVars, fanVars, fnCall, inflight>>

\* the gather is complete: search() runs from its await to its return
SearchCollect ==
    /\ aggPhase = "running"
    /\ \A i \in Tasks : taskPc[i] = "done"
    /\ LET acc == CollectLoop(taskResult,
                      [all_results |-> <<>>, library_info |-> <<>>, errors |-> <<>>])
       IN  aggRet' = [items        |-> _merge_and_rank(acc.all_results),
                      library_info |-> acc.library_info,
                      errors       |-> acc.errors]
    /\ aggPhase' = "done"
    /\ UNCHANGED <<library_slugs, clients, taskPc, taskResult, scoreProbe>>
    /\ UNCHANGED <<clientVars, fanVars, fnCall, inflight>>

\* the caller is done with the result; the aggregator keeps its clients
SearchDone ==
    /\ aggPhase = "done"
    /\ aggPhase' = "idle"
    /\ taskPc' = <<>>
    /\ taskResult' = <<>>
    /\ aggRet' = NoRet
    /\ UNCHANGED <<library_slugs, clients, scoreProbe>>
    /\ UNCHANGED <<clientVars, fanVars, fnCall, inflight>>

\* _calculate_score on its own
ScoreCall ==
    /\ aggPhase = "idle"
    /\ \E library_count \in 1..Cardinality(Slugs), best_rank \in 0..MaxRank :
          scoreProbe' = [library_count |-> library_count,
                         best_rank     |-> best_rank,
                         score         |-> _calculate_score(library_count, best_rank)]
    /\ UNCHANGED <<library_slugs, clients, aggPhase, taskPc, taskResult, aggRet>>
    /\ UNCHANGED <<clientVars, fanVars, fnCall, inflight>>

NextAggregator ==
    \/ SearchCall
    \/ \E i \in Tasks : TaskBegin(i)
    \/ \E i \in Tasks : TaskReturns(i)
    \/ \E i \in Tasks : TaskRaises(i)
    \/ SearchCollect
    \/ SearchDone
    \/ ScoreCall

SpecAggregator == InitAggregator /\ [][NextAggregator]_vars

---------------------------------------------------------------------------
(* What search() was given, read off the tasks' tuples                     *)

Raised(i) == taskResult[i].results.none
Returned(i) == ~taskResult[i].results.none

\* every hit a portal returned: its portal, the portal's place in
\* library_slugs, its rank in the portal's list, and the hit
HitsIn ==
    UNION {{[slug |-> library_slugs[i], idx |-> i, rank |-> r - 1,
             result |-> taskResult[i].results.items[r]] :
                r \in 1..Len(taskResult[i].results.items)} :
           i \in {j \in Tasks : Returned(j)}}

\* the words of a text: its maximal runs of letters and digits
RECURSIVE WordsFrom(_, _)
WordsFrom(rest, cur) ==
    IF rest = <<>> THEN (IF cur = <<>> THEN <<>> ELSE <<cur>>)
    ELSE IF Head(rest) \in LetterOrDigit
    THEN WordsFrom(Tail(rest), Append(cur, Head(rest)))
    ELSE (IF cur = <<>> THEN <<>> ELSE <<cur>>) \o WordsFrom(Tail(rest), <<>>)

WordsOf(text) == IF text = None THEN <<>> ELSE WordsFrom(text, <<>>)

\* two records name the same title and author up to punctuation and spacing
SameWords(s, t) == s = t \/ WordsOf(s) = WordsOf(t)
SameBook(x, y) ==
    /\ SameWords(x.author, y.author)
    /\ SameWords(x.title, y.title)

Members(entry) == {entry.library_results[m] : m \in 1..Len(entry.library_results)}
GroupOf(entry) == {h \in HitsIn : SameBook(h.result, entry)}
Earlier(h1, h2) == h1.idx < h2.idx \/ (h1.idx = h2.idx /\ h1.rank < h2.rank)
FirstOf(grp) == CHOOSE h \in grp : \A h2 \in grp : h2 = h \/ Earlier(h, h2)
BestRankOf(grp) == (CHOOSE h \in grp : \A h2 \in grp : h.rank <= h2.rank).rank
InfoCount(slug) ==
    Cardinality({j \in 1..Len(aggRet.library_info) :
                    aggRet.library_info[j].library_slug = slug})

---------------------------------------------------------------------------
(* Claims about SearchAggregator                                           *)

\* C1: when search() has returned, every slug of library_slugs is in exactly
\* one of the two outputs: one LibrarySearchInfo of library_info, or one key
\* of errors, whatever each portal's search returned or raised.
C1_ExactlyOneOutcome ==
    aggPhase = "done" =>
        \A i \in Tasks :
            LET slug == library_slugs[i] IN
            \/ InfoCount(slug) = 1 /\ ~DictHas(aggRet.errors, slug)
            \/ InfoCount(slug) = 0 /\ DictHas(aggRet.errors, slug)

\* C2: search() returns whatever subset of the portals raised; errors has an
\* entry for exactly the portals whose search raised, and the merged items
\* are built from exactly the hits of the portals whose search returned.
C2_ErrorIsolation ==
    aggPhase = "done" =>
        /\ DictKeys(aggRet.errors) = {library_slugs[i] : i \in {j \in Tasks : Raised(j)}}
        /\ \A e \in 1..Len(aggRet.items) :
              \A m \in Members(aggRet.items[e]) :
                  \E h \in HitsIn : h.result = m
        /\ \A h \in HitsIn :
              \E e \in 1..Len(aggRet.items) :
                  \E m \in Members(aggRet.items[e]) :
                      m.library_slug = h.slug /\ SameBook(m, h.result)

\* C3: the merged entries are the groups of hits with equal normalized
\* (title, author): every member of an entry names the entry's book, no two
\* entries name the same book, and every hit's book has an entry, which
\* holds a member from that hit's portal.
C3_MergeByKey ==
    aggPhase = "done" =>
        LET items == aggRet.items IN
        /\ \A e \in 1..Len(items) :
              \A m \in Members(items[e]) : SameBook(m, items[e])
        /\ \A e1, e2 \in 1..Len(items) :
              e1 /= e2 => ~SameBook(items[e1], items[e2])
        /\ \A h \in HitsIn :
              \E e \in 1..Len(items) :
                  /\ SameBook(h.result, items[e])
                  /\ \E m \in Members(items[e]) : m.library_slug = h.slug

\* two portals spelled one book differently and were merged, beside an
\* entry for another book
C3_Witness ==
    /\ aggPhase = "done"
    /\ Len(aggRet.items) >= 2
    /\ \E e \in 1..Len(aggRet.items) :
          \E m1, m2 \in Members(aggRet.items[e]) :
              m1.library_slug /= m2.library_slug /\ m1.title /= m2.title

\* C4: every merged entry's score is 10 x (the number of distinct portals
\* with a hit in its group) + max(0, 20 - the group's least rank), and is
\* greater than 0; _calculate_score gives 10 x library_count + 20 - best_rank
\* up to rank 20 and 10 x library_count from there on.
C4_Score ==
    /\ aggPhase = "done" =>
          \A e \in 1..Len(aggRet.items) :
              LET grp == GroupOf(aggRet.items[e])
                  portals == Cardinality({h.slug : h \in grp})
                  best == BestRankOf(grp)
              IN  /\ aggRet.items[e].score =
                        10 * portals + (IF best < 20 THEN 20 - best ELSE 0)
                  /\ aggRet.items[e].score > 0
    /\ scoreProbe /= NoProbe =>
          /\ scoreProbe.score > 0
          /\ scoreProbe.best_rank <= 20 =>
                scoreProbe.score = 10 * scoreProbe.library_count + 20 - scoreProbe.best_rank
          /\ scoreProbe.best_rank >= 20 =>
                scoreProbe.score = 10 * scoreProbe.library_count

\* a book found in two portals at best rank 0 scores 40, beside one found in
\* one portal at rank 0, which scores 30
C4_Witness ==
    /\ aggPhase = "done"
    /\ \E e1, e2 \in 1..Len(aggRet.items) :
          /\ aggRet.items[e1].score = 40
          /\ Len(aggRet.items[e1].library_results) = 2
          /\ aggRet.items[e2].score = 30
          /\ Len(aggRet.items[e2].library_results) = 1

\* C5: the merged entries are in non-increasing score order, and of two
\* entries with equal score the one whose group was met first (portals in
\* the order of library_slugs, each portal's hits in rank order) comes first.
C5_Order ==
    aggPhase = "done" =>
        \A i, j \in 1..Len(aggRet.items) :
            i < j =>
                /\ aggRet.items[i].score >= aggRet.items[j].score
                /\ aggRet.items[i].score = aggRet.items[j].score =>
                      Earlier(FirstOf(GroupOf(aggRet.items[i])),
                              FirstOf(GroupOf(aggRet.items[j])))

\* two entries tie, and the first is from a portal whose slug sorts after
\* the second's
C5_Witness ==
    /\ aggPhase = "done"
    /\ \E i, j \in 1..Len(aggRet.items) :
          /\ i < j
          /\ aggRet.items[i].score = aggRet.items[j].score
          /\ SlugLess(aggRet.items[j].library_results[1].library_slug,
                      aggRet.items[i].library_results[1].library_slug)


---------------------------------------------------------------------------
(* LibraryClient: the session                                              *)

\* the credentials a client is constructed with ("" when neither the
\* argument nor the environment gives one) and the arguments of login()
\* (None when not given)
StoredUserNames == {<<>>, <<"1">>}
StoredPasswords == {<<>>, <<"m">>}
LoginUserNames == {None, <<"1">>, <<"g">>}
LoginPasswords == {None, <<"m">>}

\* an HTTP exchange as the client sees it: ok is FALSE when the request
\* raised (a timeout, a connection error) or raise_for_status() raised (a
\* status that is not 2xx); mng and profile say whether "/mng" and "profile"
\* are in the final URL
Responses == [ok : BOOLEAN, mng : BOOLEAN, profile : BOOLEAN]
NoResponse == [ok |-> FALSE, mng |-> FALSE, profile |-> FALSE]

\* the page login() is answered with, and how far its two requests got
LoginPages == [http : {"get_fails", "post_fails", "ok"},
               loans_link : BOOLEAN, profile_url : BOOLEAN, error_banner : BOOLEAN,
               login_form : BOOLEAN, system_message : BOOLEAN]

\* the paths download_html is given
Paths == {"relative", "absolute_own", "absolute_other", "protocol_relative"}
\* the host of the URL download_html builds: an absolute URL is taken as it
\* is, and urljoin resolves a path that starts with // against the scheme only
TargetHost(path) ==
    IF path \in {"absolute_other", "protocol_relative"} THEN "other" ELSE "own"

AuthenticatedOps ==
    {"get_checked_out_books", "get_checkout_history", "download_html",
     "renew_book", "renew_books"}
PublicOps == {"search", "get_book_details"}

\* a call may start when no call of this client is under way and the caller
\* has taken the last call's result
Ready == srch.phase = "idle" /\ call.op = "none"

EnsureAlwaysPasses(flag) == TRUE

\* _ensure_logged_in: FALSE stands for raise LibraryClientError
_ensure_logged_in(flag) == flag

\* the session-expiry test on the final URL
IsLoginRedirect(resp) == resp.mng /\ ~resp.profile

FetchKeepsFlag(flag, resp) ==
    IF ~_ensure_logged_in(flag)
    THEN [outcome |-> "LibraryClientError", requests |-> 0, logged_in |-> flag]
    ELSE IF ~resp.ok
    THEN [outcome |-> "HTTPError", requests |-> 1, logged_in |-> flag]
    ELSE IF IsLoginRedirect(resp)
    THEN [outcome |-> "SessionExpiredError", requests |-> 1, logged_in |-> flag]
    ELSE [outcome |-> "ok", requests |-> 1, logged_in |-> flag]

\* the common course of get_checked_out_books, get_checkout_history and
\* download_html: how the call ends, the requests issued, the flag afterwards
Fetch(flag, resp) ==
    IF ~_ensure_logged_in(flag)
    THEN [outcome |-> "LibraryClientError", requests |-> 0, logged_in |-> flag]
    ELSE IF ~resp.ok
    THEN [outcome |-> "HTTPError", requests |-> 1, logged_in |-> flag]
    ELSE IF IsLoginRedirect(resp)
    THEN [outcome |-> "SessionExpiredError", requests |-> 1, logged_in |-> FALSE]
    ELSE [outcome |-> "ok", requests |-> 1, logged_in |-> flag]

\* the fields every call records
CallStart(op) ==
    [op |-> op, logged_in_before |-> logged_in, expired_before |-> expired,
     username_before |-> username, password_before |-> password]

InitClient ==
    /\ IdleAggregator
    /\ IdleFan
    /\ IdleFn
    /\ IdleInflight
    /\ logged_in = FALSE
    /\ username \in StoredUserNames
    /\ password \in StoredPasswords
    /\ expired = FALSE
    /\ call = NoCall
    /\ srch = NoSearch

LoginVerdictLinkFirst(page) ==
    IF page.loans_link \/ page.profile_url THEN "ok"
    ELSE IF page.error_banner THEN "LoginError"
    ELSE IF page.login_form THEN "LoginError"
    ELSE "ok"

\* how login() classifies the page its POST is answered with
LoginVerdict(page) ==
    IF page.error_banner THEN "LoginError"
    ELSE IF page.loans_link \/ page.profile_url THEN "ok"
    ELSE IF page.login_form THEN "LoginError"
    ELSE "ok"

LoginStoresAtOnce(outcome, old, new) == new

\* self._logged_in, self._username and self._password are assigned on the
\* two paths of login() that return True and nowhere else in it
LoginStores(outcome, old, new) == IF outcome = "ok" THEN new ELSE old

Login ==
    /\ Ready
    /\ \E u \in LoginUserNames, p \in LoginPasswords, page \in LoginPages :
          LET user == IF Truthy(u) THEN u ELSE username
              pass == IF Truthy(p) THEN p ELSE password
              missing == ~Truthy(user) \/ ~Truthy(pass)
              outcome == IF missing THEN "LoginError"
                         ELSE IF page.http /= "ok" THEN "HTTPError"
                         ELSE LoginVerdict(page)
              requests == IF missing THEN 0
                          ELSE IF page.http = "get_fails" THEN 1 ELSE 2
          IN  /\ logged_in' = LoginStores(outcome, logged_in, TRUE)
              /\ username' = LoginStores(outcome, username, user)
              /\ password' = LoginStores(outcome, password, pass)
              /\ expired' = IF outcome = "ok" THEN FALSE ELSE expired
              /\ call' = CallStart("login") @@
                         [requests |-> requests, outcome |-> outcome,
                          args |-> [username |-> u, password |-> p],
                          page |-> IF requests = 2 THEN page
                                   ELSE [page EXCEPT !.loans_link = FALSE,
                                                     !.profile_url = FALSE,
                                                     !.error_banner = FALSE,
                                                     !.login_form = FALSE,
                                                     !.system_message = FALSE]]
    /\ UNCHANGED srch
    /\ UNCHANGED <<aggVars, fanVars, fnCall, inflight>>

\* get_checked_out_books and get_checkout_history
FetchRecords(op) ==
    /\ Ready
    /\ \E resp \in Responses :
          LET r == Fetch(logged_in, resp) IN
          /\ logged_in' = r.logged_in
          /\ expired' = IF r.outcome = "SessionExpiredError" THEN TRUE ELSE expired
          /\ call' = CallStart(op) @@
                     [requests |-> r.requests, outcome |-> r.outcome,
                      resp |-> IF r.requests = 0 THEN NoResponse ELSE resp,
                      parsed |-> r.outcome = "ok"]
    /\ UNCHANGED <<username, password, srch>>
    /\ UNCHANGED <<aggVars, fanVars, fnCall, inflight>>

GetCheckedOutBooks == FetchRecords("get_checked_out_books")
GetCheckoutHistory == FetchRecords("get_checkout_history")

DownloadHtml ==
    /\ Ready
    /\ \E path \in Paths, resp \in Responses :
          LET r == Fetch(logged_in, resp) IN
          /\ logged_in' = r.logged_in
          /\ expired' = IF r.outcome = "SessionExpiredError" THEN TRUE ELSE expired
          /\ call' = CallStart("download_html") @@
                     [requests |-> r.requests, outcome |-> r.outcome,
                      resp |-> IF r.requests = 0 THEN NoResponse ELSE resp,
                      parsed |-> FALSE,
                      path |-> path,
                      host |-> IF r.requests = 0 THEN "none" ELSE TargetHost(path)]
    /\ UNCHANGED <<username, password, srch>>
    /\ UNCHANGED <<aggVars, fanVars, fnCall, inflight>>

\* get_book_details: no _ensure_logged_in
GetBookDetails ==
    /\ Ready
    /\ \E ok \in BOOLEAN :
          call' = CallStart("get_book_details") @@
                  [requests |-> 1, outcome |-> IF ok THEN "ok" ELSE "HTTPError"]
    /\ UNCHANGED <<logged_in, username, password, expired, srch>>
    /\ UNCHANGED <<aggVars, fanVars, fnCall, inflight>>

---------------------------------------------------------------------------
(* LibraryClient: renewal                                                  *)

\* the CheckedOutBooks renewal is asked for; BookK has no barcode
BookK == [title |-> <<"k">>, barcode |-> None]
BookM == [title |-> <<"m">>, barcode |-> <<"1">>]
BookG == [title |-> <<"g">>, barcode |-> <<"1", "1">>]
Books == {BookK, BookM, BookG}

DateA == <<"17", "12", "2025">>
\* the rows _parse_loans_page makes of the page a renewal is answered with:
\* a row's due date is None when its cell is no date
LoanRows == [barcode : {<<"1">>, <<"1", "1">>}, due_date : {None, DateA}]

\* the answer to the renewal POST: ok as in Responses, whether the page's
\* text holds one of the success keywords, one of the error keywords, the
\* text of its system-message-container, and its loans table
RenewalPages(tables) ==
    [ok : BOOLEAN, success_keyword : BOOLEAN, error_keyword : BOOLEAN,
     message : {<<>>, <<"k">>}, loans : tables]

NoBarcodeMessage == <<"No barcode available">>
CannotRenewMessage == <<"Cannot renew: no barcode available">>

\* [f(x) for x in xs if p(x)], for the barcodes of books
RECURSIVE BarcodesOf(_)
BarcodesOf(books) ==
    IF books = <<>> THEN <<>>
    ELSE IF Truthy(Head(books).barcode)
    THEN <<Head(books).barcode>> \o BarcodesOf(Tail(books))
    ELSE BarcodesOf(Tail(books))

\* barcode_to_book[barcode].due_date, None when the barcode is no key: of
\* several rows with one barcode the dict comprehension keeps the last
NewDueDate(loans, barcode) ==
    LET rows == {i \in 1..Len(loans) : Truthy(loans[i].barcode) /\ loans[i].barcode = barcode}
    IN  IF rows = {} THEN None
        ELSE loans[CHOOSE i \in rows : \A j \in rows : j <= i].due_date

\* books is None in renew_book's call of _renew_books: has_books is FALSE
_parse_renewal_response(page, barcodes, has_books, books) ==
    [i \in 1..Len(barcodes) |->
        [book |-> IF has_books /\ books /= <<>> /\ i - 1 < Len(books)
                  THEN books[i]
                  ELSE [title |-> <<"Book ">> \o barcodes[i], barcode |-> barcodes[i]],
         success |-> page.success_keyword /\ ~page.error_keyword,
         message |-> page.message,
         new_due_date |-> NewDueDate(page.loans, barcodes[i])]]

RenewBook ==
    /\ Ready
    /\ \E book \in Books, page \in RenewalPages(SeqsUpTo(LoanRows, 1)) :
          LET passes == _ensure_logged_in(logged_in)
              posts == passes /\ Truthy(book.barcode)
              results == _parse_renewal_response(page, <<book.barcode>>, FALSE, <<>>)
          IN  call' = CallStart("renew_book") @@
                  [requests |-> IF posts THEN 1 ELSE 0,
                   outcome  |-> IF ~passes THEN "LibraryClientError"
                                ELSE IF posts /\ ~page.ok THEN "HTTPError"
                                ELSE "ok",
                   books    |-> <<book>>,
                   sent     |-> IF posts THEN <<book.barcode>> ELSE <<>>,
                   results  |-> IF ~passes \/ (posts /\ ~page.ok) THEN <<>>
                                ELSE IF ~posts
                                THEN <<[book |-> book, success |-> FALSE,
                                        message |-> CannotRenewMessage,
                                        new_due_date |-> None]>>
                                ELSE <<results[1]>>]
    /\ UNCHANGED <<logged_in, username, password, expired, srch>>
    /\ UNCHANGED <<aggVars, fanVars, fnCall, inflight>>

RenewBooks ==
    /\ Ready
    /\ \E books \in SeqsUpTo(Books, MaxBooks),
          page \in RenewalPages(SeqsUpTo(LoanRows, MaxRows)) :
          LET passes == _ensure_logged_in(logged_in)
              barcodes == BarcodesOf(books)
              posts == passes /\ barcodes /= <<>>
          IN  call' = CallStart("renew_books") @@
                  [requests |-> IF posts THEN 1 ELSE 0,
                   outcome  |-> IF ~passes THEN "LibraryClientError"
                                ELSE IF posts /\ ~page.ok THEN "HTTPError"
                                ELSE "ok",
                   books    |-> books,
                   sent     |-> IF posts THEN barcodes ELSE <<>>,
                   loans    |-> IF posts /\ page.ok THEN page.loans ELSE <<>>,
                   results  |-> IF ~passes \/ (posts /\ ~page.ok) THEN <<>>
                                ELSE IF ~posts
                                THEN [i \in 1..Len(books) |->
                                        [book |-> books[i], success |-> FALSE,
                                         message |-> NoBarcodeMessage,
                                         new_due_date |-> None]]
                                ELSE _parse_renewal_response(page, barcodes, TRUE, books)]
    /\ UNCHANGED <<logged_in, username, password, expired, srch>>
    /\ UNCHANGED <<aggVars, fanVars, fnCall, inflight>>

---------------------------------------------------------------------------
(* LibraryClient: search                                                   *)

\* the results per page the portals serve
PageSize == 20

\* a results page: total is the number in its "total results" text, -1 when
\* the page has no such text; no_results says whether it shows the "no
\* results" message; links is the number of items its title links parse to
TotalTexts == {-1, 0, 1, 21, 41}
Pages == [total : TotalTexts, no_results : BOOLEAN, links : 0..MaxLinks]

\* the items of page number n: item i of the page is <<n, i>>
_parse_search_results(page, n) ==
    IF page.no_results
    THEN [items |-> <<>>, total_count |-> 0, page |-> 1, total_pages |-> 1]
    ELSE [items |-> [i \in 1..page.links |-> <<n, i>>],
          total_count |-> IF page.total = -1 THEN 0 ELSE page.total,
          page |-> 1,
          total_pages |-> IF page.total = -1 THEN 1
                          ELSE (page.total + 19) \div 20]

\* s[:n] for n >= 0
Take(s, n) == SubSeq(s, 1, IF n < Len(s) THEN n ELSE Len(s))

ReturnUntruncated(st) ==
    [requests |-> st.requests, outcome |-> "ok", max_results |-> st.max_results,
     items |-> st.items, total_count |-> st.total_count,
     total_pages |-> st.total_pages,
     fetched |-> st.fetched, offsets |-> st.offsets, failed_page |-> 0]

\* results.items = results.items[:max_results]; return results
SearchReturn(st) ==
    [requests |-> st.requests, outcome |-> "ok", max_results |-> st.max_results,
     items |-> Take(st.items, st.max_results), total_count |-> st.total_count,
     total_pages |-> st.total_pages,
     fetched |-> st.fetched, offsets |-> st.offsets, failed_page |-> 0]

\* raise_for_status() of page n's request raises out of search()
SearchRaise(st, n) ==
    [requests |-> st.requests, outcome |-> "HTTPError", max_results |-> st.max_results,
     items |-> <<>>, total_count |-> 0,
     total_pages |-> st.total_pages,
     fetched |-> st.fetched, offsets |-> st.offsets, failed_page |-> n]

WhileAnyPage(st) == st.remaining > 0

\* while remaining > 0 and page <= results.total_pages
WhileCondition(st) == st.remaining > 0 /\ st.page <= st.total_pages

\* search() from its call to its first await in the page loop, or to its
\* return or raise when it does not get there
SearchStart ==
    /\ Ready
    /\ \E max_results \in 0..MaxResults, http \in {"get_fails", "post_fails", "ok"},
          first \in Pages :
          LET results == _parse_search_results(first, 1)
              st == [phase |-> "paging",
                     requests |-> IF http = "get_fails" THEN 1 ELSE 2,
                     max_results |-> max_results,
                     items |-> IF http = "ok" THEN results.items ELSE <<>>,
                     total_count |-> results.total_count,
                     total_pages |-> results.total_pages,
                     remaining |-> max_results - Len(results.items),
                     page |-> 2,
                     fetched |-> IF http = "ok" THEN <<results.items>> ELSE <<>>,
                     offsets |-> <<>>]
              has_next == results.page < results.total_pages
              pages_more == max_results > Len(results.items) /\ has_next
              loops == pages_more /\ WhileCondition(st)
          IN  IF http /= "ok"
              THEN /\ call' = CallStart("search") @@ SearchRaise(st, 1)
                   /\ srch' = NoSearch
              ELSE IF loops
              THEN /\ call' = CallStart("search") @@
                              [requests |-> 2, outcome |-> "pending"]
                   /\ srch' = st
              ELSE /\ call' = CallStart("search") @@ SearchReturn(st)
                   /\ srch' = NoSearch
    /\ UNCHANGED <<logged_in, username, password, expired>>
    /\ UNCHANGED <<aggVars, fanVars, fnCall, inflight>>

\* one pass of the while loop: _fetch_search_page(page), then on to the next
\* await, the return or the raise
SearchFetch ==
    /\ srch.phase = "paging"
    /\ \E ok \in BOOLEAN, next \in Pages :
          LET next_results == _parse_search_results(next, srch.page)
              items_to_add == Take(next_results.items, srch.remaining)
              asked == [srch EXCEPT !.requests = @ + 1,
                                    !.offsets = Append(@, (srch.page - 1) * PageSize)]
              st == [asked EXCEPT !.items = @ \o items_to_add,
                                  !.remaining = @ - Len(items_to_add),
                                  !.page = @ + 1,
                                  !.fetched = Append(@, next_results.items)]
          IN  IF ~ok
              THEN /\ call' = [f \in {"op", "logged_in_before", "expired_before",
                                      "username_before", "password_before"} |-> call[f]]
                              @@ SearchRaise(asked, srch.page)
                   /\ srch' = NoSearch
              ELSE IF next_results.items = <<>>
              THEN /\ call' = [f \in {"op", "logged_in_before", "expired_before",
                                      "username_before", "password_before"} |-> call[f]]
                              @@ SearchReturn([asked EXCEPT !.fetched = Append(@, <<>>)])
                   /\ srch' = NoSearch
              ELSE IF WhileCondition(st)
              THEN /\ call' = [call EXCEPT !.requests = st.requests]
                   /\ srch' = st
              ELSE /\ call' = [f \in {"op", "logged_in_before", "expired_before",
                                      "username_before", "password_before"} |-> call[f]]
                              @@ SearchReturn(st)
                   /\ srch' = NoSearch
    /\ UNCHANGED <<logged_in, username, password, expired>>
    /\ UNCHANGED <<aggVars, fanVars, fnCall, inflight>>

\* the caller has the result or the exception of its call
CallDone ==
    /\ call.op /= "none"
    /\ call.outcome /= "pending"
    /\ call' = NoCall
    /\ UNCHANGED <<logged_in, username, password, expired, srch>>
    /\ UNCHANGED <<aggVars, fanVars, fnCall, inflight>>

NextClient ==
    \/ CallDone
    \/ Login
    \/ GetCheckedOutBooks
    \/ GetCheckoutHistory
    \/ DownloadHtml
    \/ GetBookDetails
    \/ RenewBook
    \/ RenewBooks
    \/ SearchStart
    \/ SearchFetch

SpecClient == InitClient /\ [][NextClient]_vars

\* every request of the page loop is answered or fails: each has httpx's
\* timeout
SpecClientLive == SpecClient /\ WF_vars(SearchFetch)


---------------------------------------------------------------------------
(* Claims about LibraryClient                                              *)

\* the calls that test the final URL for the login path
ExpiryOps == {"get_checked_out_books", "get_checkout_history", "download_html"}

\* the call under way or just ended was answered from the login path
AnsweredFromLogin ==
    /\ call.op \in ExpiryOps
    /\ call.logged_in_before
    /\ call.requests = 1
    /\ call.resp.mng
    /\ ~call.resp.profile

IsPrefix(s, t) == Len(s) <= Len(t) /\ s = SubSeq(t, 1, Len(s))

\* C6 as stated: a call of a logged-in client that is answered from the
\* login path (/mng in the final URL, and not the profile path) raises
\* SessionExpiredError without parsing the page, the client is no longer
\* logged in, and every later authenticated call made before a login
\* succeeds raises SessionExpiredError too.
C6_SessionExpiry ==
    /\ (AnsweredFromLogin /\ call.resp.ok) =>
          /\ call.outcome = "SessionExpiredError"
          /\ ~call.parsed
          /\ ~logged_in
    /\ (call.op \in AuthenticatedOps /\ call.expired_before) =>
          call.outcome = "SessionExpiredError"

\* C6 amended: a call of a logged-in client that is answered (with a 2xx
\* response) from the login path raises SessionExpiredError without parsing
\* the page and the client is no longer logged in; every later authenticated
\* call made before a login succeeds raises LibraryClientError (not logged
\* in), issuing no request.
C6_SessionExpiryAmended ==
    /\ (AnsweredFromLogin /\ call.resp.ok) =>
          /\ call.outcome = "SessionExpiredError"
          /\ ~call.parsed
          /\ ~logged_in
    /\ (call.op \in AuthenticatedOps /\ call.expired_before) =>
          /\ call.outcome = "LibraryClientError"
          /\ call.requests = 0
          /\ ~logged_in

\* an authenticated call made after the session expired and before a login
C6_Witness ==
    /\ call.op \in AuthenticatedOps
    /\ call.expired_before
    /\ call.outcome = "LibraryClientError"
    /\ username /= <<>>

C8_SearchLimit ==
    (call.op = "search" /\ call.outcome = "ok") =>
        /\ Len(call.items) <= call.max_results
        /\ IsPrefix(call.items, Flatten(call.fetched))

\* a search over two pages that cut what the pages held down to max_results
C8_Witness ==
    /\ call.op = "search"
    /\ call.outcome = "ok"
    /\ Len(call.fetched) = 2
    /\ call.max_results > 0
    /\ Len(call.items) = call.max_results
    /\ Len(Flatten(call.fetched)) > call.max_results

\* C9: when the request for page 2 or a later page fails, search returns
\* the items of the earlier pages, cut to max_results.
C9_PartialOnFailure ==
    (call.op = "search" /\ call.outcome /= "pending" /\ call.failed_page >= 2) =>
        /\ call.outcome = "ok"
        /\ call.items = Take(Flatten(call.fetched), call.max_results)

\* C10: renew_books of a logged-in client returns one RenewalResult per
\* input book, the i-th about the i-th book; a book with no barcode gets a
\* failure with the no-barcode message; only barcodes of input books are
\* sent to the server.
C10_OneResultPerBook ==
    (call.op = "renew_books" /\ call.logged_in_before /\ call.outcome = "ok") =>
        /\ Len(call.results) = Len(call.books)
        /\ \A i \in 1..Len(call.books) :
              /\ call.results[i].book = call.books[i]
              /\ ~Truthy(call.books[i].barcode) =>
                    /\ ~call.results[i].success
                    /\ call.results[i].message = NoBarcodeMessage
        /\ \A j \in 1..Len(call.sent) :
              /\ Truthy(call.sent[j])
              /\ \E i \in 1..Len(call.books) : call.books[i].barcode = call.sent[j]

\* the page of a login() that got an answer to its POST
LoginAnswered ==
    /\ call.op = "login"
    /\ call.requests = 2
    /\ call.outcome /= "HTTPError"

\* the credentials a login() works with: the arguments, falling back on
\* the stored ones
UsedUserName ==
    IF call.args.username /= None /\ call.args.username /= <<>>
    THEN call.args.username ELSE call.username_before
UsedPassword ==
    IF call.args.password /= None /\ call.args.password /= <<>>
    THEN call.args.password ELSE call.password_before

LoginSucceeded ==
    /\ call.outcome = "ok"
    /\ logged_in
    /\ username = UsedUserName
    /\ password = UsedPassword

\* C11: login() succeeds (the client is logged in and stores the
\* credentials it used) when the page shows the loans link or the final
\* URL is on the profile path and there is no error banner; it raises
\* LoginError when there is an error banner, whatever else the page shows,
\* and when, without any sign of success, the login form is still there
\* with a system message; a page with no signal at all is a success.  A
\* login that raises leaves the flag and the stored credentials alone.
C11_LoginClassification ==
    LoginAnswered =>
        /\ ((call.page.loans_link \/ call.page.profile_url)
                /\ ~call.page.error_banner) => LoginSucceeded
        /\ call.page.error_banner => call.outcome = "LoginError"
        /\ (call.page.login_form /\ call.page.system_message
                /\ ~call.page.loans_link /\ ~call.page.profile_url)
              => call.outcome = "LoginError"
        /\ (~call.page.loans_link /\ ~call.page.profile_url
                /\ ~call.page.error_banner /\ ~call.page.login_form)
              => LoginSucceeded
        /\ call.outcome = "LoginError" =>
              /\ logged_in = call.logged_in_before
              /\ username = call.username_before
              /\ password = call.password_before

\* a login refused for its error banner although the loans link is shown
C11_Witness ==
    /\ LoginAnswered
    /\ call.page.error_banner
    /\ call.page.loans_link
    /\ call.outcome = "LoginError"
    /\ ~logged_in

---------------------------------------------------------------------------
(* The aggregators' close, get_combined_details, login_all and get_all_*   *)

\* the LibraryAccounts an aggregator is configured with: two accounts at
\* one library, told apart by a label, and one at another library
AccountA == [slug |-> "a", username |-> <<"1">>, password |-> <<"m">>, label |-> None]
AccountB == [slug |-> "a", username |-> <<"g">>, password |-> <<"m">>, label |-> <<"k">>]
AccountC == [slug |-> "b", username |-> <<"1">>, password |-> <<"m">>, label |-> None]
AccountLists == {<<AccountA, AccountB>>, <<AccountC, AccountA, AccountB>>}

\* LibraryAccount.account_id
account_id(account) ==
    IF Truthy(account.label)
    THEN <<account.slug, ":">> \o account.label
    ELSE <<account.slug, ":">> \o account.username

\* the (slug, title_id) pairs get_combined_details is given
PairLists ==
    {<<[slug |-> "a", title_id |-> "1"], [slug |-> "b", title_id |-> "1"]>>,
     <<[slug |-> "b", title_id |-> "2"], [slug |-> "a", title_id |-> "1"],
       [slug |-> "a", title_id |-> "2"]>>}

\* what _parse_book_details makes of a page: None when the page has no
\* title, else a BookDetails, whose title is not empty
NoDetails == [none |-> TRUE]
DetailM == [none |-> FALSE, title |-> <<"k">>, author |-> <<"m">>,
            series |-> None, series_number |-> None, copies |-> 1]
DetailG == [none |-> FALSE, title |-> <<"b">>, author |-> None,
            series |-> <<"g">>, series_number |-> <<"1">>, copies |-> 2]
DetailKinds == {DetailM, DetailG}
StampDetails(d, slug, title_id) ==
    [none |-> FALSE, title |-> d.title, author |-> d.author, series |-> d.series,
     series_number |-> d.series_number, copies |-> d.copies,
     library_slug |-> slug, title_id |-> title_id]

CreateClientAlways(keys, key) == Append(keys, key)

\* _get_or_create_client on the keys of self._clients
_get_or_create_client(keys, key) ==
    IF \E i \in 1..Len(keys) : keys[i] = key THEN keys ELSE Append(keys, key)

FanTasks == 1..Len(fan.tasks)
FanIdle == fan.phase = "idle"
FanAllDone == \A i \in FanTasks : fan.tasks[i].pc = "done"
FanPcs == [i \in FanTasks |-> fan.tasks[i].pc]
\* a place of the gathered list that no task has filled yet
NoFetched == [slug |-> "", details |-> NoDetails, error |-> None]
NoBooks == [key |-> <<>>, books |-> <<>>, error |-> None]

InitFan ==
    /\ IdleAggregator
    /\ IdleClient
    /\ owner \in {"SearchAggregator", "LibraryAggregator"}
    /\ accounts \in (IF owner = "LibraryAggregator" THEN AccountLists ELSE {<<>>})
    /\ owned = <<>>
    /\ session = {}
    /\ agg_logged_in = {}
    /\ fan = NoFan
    /\ IdleFn
    /\ IdleInflight

\* ---- close (SearchAggregator.close and LibraryAggregator.close) ----

GatherPropagates(tasks) == \E i \in 1..Len(tasks) : tasks[i].raised

\* asyncio.gather(*close_tasks, return_exceptions=True): TRUE stands for
\* the gather raising
GatherClose(tasks) == FALSE

\* close() from its call to the gather, or to its return when there is
\* nothing to close
CloseCall ==
    /\ FanIdle
    /\ IF owned = <<>>
       THEN /\ fan' = [op |-> "close", phase |-> "done", tasks |-> <<>>,
                       owned_before |-> owned, raises |-> FALSE]
            /\ owned' = <<>>
            /\ session' = {}
            /\ agg_logged_in' = {}
       ELSE /\ fan' = [op |-> "close", phase |-> "running",
                       tasks |-> [i \in 1..Len(owned) |->
                                     [key |-> owned[i], pc |-> "waiting",
                                      raised |-> FALSE]],
                       owned_before |-> owned, raises |-> FALSE]
            /\ UNCHANGED <<owned, session, agg_logged_in>>
    /\ UNCHANGED <<owner, accounts>>
    /\ UNCHANGED <<aggVars, clientVars, fnCall, inflight>>

\* one client's close() returns or raises
CloseTaskEnd(i) ==
    /\ fan.op = "close"
    /\ fan.phase = "running"
    /\ fan.tasks[i].pc = "waiting"
    /\ \E raised \in BOOLEAN :
          fan' = [fan EXCEPT !.tasks[i] = [key |-> fan.tasks[i].key, pc |-> "done",
                                           raised |-> raised]]
    /\ UNCHANGED <<owner, accounts, owned, session, agg_logged_in>>
    /\ UNCHANGED <<aggVars, clientVars, fnCall, inflight>>

\* the gather is complete: the two clear() calls, unless the gather raised
CloseCollect ==
    /\ fan.op = "close"
    /\ fan.phase = "running"
    /\ FanAllDone
    /\ IF GatherClose(fan.tasks)
       THEN /\ fan' = [fan EXCEPT !.phase = "done", !.raises = TRUE]
            /\ UNCHANGED <<owned, session, agg_logged_in>>
       ELSE /\ fan' = [fan EXCEPT !.phase = "done"]
            /\ owned' = <<>>
            /\ session' = {}
            /\ agg_logged_in' = {}
    /\ UNCHANGED <<owner, accounts>>
    /\ UNCHANGED <<aggVars, clientVars, fnCall, inflight>>

\* the caller is done with the result of a fan-out call
FanDone ==
    /\ fan.phase = "done"
    /\ fan' = NoFan
    /\ UNCHANGED <<owner, accounts, owned, session, agg_logged_in>>
    /\ UNCHANGED <<aggVars, clientVars, fnCall, inflight>>

\* ---- SearchAggregator.get_combined_details ----

NoCombined == [title |-> <<>>, author |-> None, series |-> None,
               series_number |-> None, library_details |-> <<>>, errors |-> <<>>]

\* one turn of the loop over the gathered (slug, details, error) tuples
DetailsOne(acc, t) ==
    IF Truthy(t.error)
    THEN [acc EXCEPT !.errors = DictSet(acc.errors, t.slug, t.error)]
    ELSE IF ~t.details.none
    THEN [acc EXCEPT
            !.library_details = Append(acc.library_details, t.details),
            !.title = IF ~Truthy(acc.title) THEN t.details.title ELSE @,
            !.author = IF ~Truthy(acc.title) THEN t.details.author ELSE @,
            !.series = IF ~Truthy(acc.title) THEN t.details.series ELSE @,
            !.series_number =
                IF ~Truthy(acc.title) THEN t.details.series_number ELSE @]
    ELSE acc

RECURSIVE DetailsLoop(_, _)
DetailsLoop(results, acc) ==
    IF results = <<>> THEN acc
    ELSE DetailsLoop(Tail(results), DetailsOne(acc, Head(results)))

\* get_combined_details up to its gather
DetailsCall ==
    /\ owner = "SearchAggregator"
    /\ FanIdle
    /\ \E pairs \in PairLists :
          fan' = [op |-> "get_combined_details", phase |-> "running",
                  tasks |-> [i \in 1..Len(pairs) |->
                                [slug |-> pairs[i].slug, title_id |-> pairs[i].title_id,
                                 pc |-> "new", details |-> NoDetails, error |-> None,
                                 raised |-> FALSE]],
                  results |-> [i \in 1..Len(pairs) |-> NoFetched],
                  first_done |-> 0]
    /\ UNCHANGED <<owner, accounts, owned, session, agg_logged_in>>
    /\ UNCHANGED <<aggVars, clientVars, fnCall, inflight>>

\* fetch_details up to its await
DetailsTaskBegin(i) ==
    /\ fan.op = "get_combined_details"
    /\ fan.phase = "running"
    /\ fan.tasks[i].pc = "new"
    /\ owned' = _get_or_create_client(owned, fan.tasks[i].slug)
    /\ fan' = [fan EXCEPT !.tasks[i].pc = "waiting"]
    /\ UNCHANGED <<owner, accounts, session, agg_logged_in>>
    /\ UNCHANGED <<aggVars, clientVars, fnCall, inflight>>

\* the client's get_book_details returns a BookDetails or None
DetailsTaskReturns(i) ==
    /\ fan.op = "get_combined_details"
    /\ fan.phase = "running"
    /\ fan.tasks[i].pc = "waiting"
    /\ \E d \in {NoDetails} \cup
                {StampDetails(k, fan.tasks[i].slug, fan.tasks[i].title_id) :
                    k \in DetailKinds} :
          fan' = [fan EXCEPT !.tasks[i].pc = "done",
                             !.tasks[i].details = d,
                             !.results[GatherSlot(i, FanPcs)] =
                                 [slug |-> fan.tasks[i].slug, details |-> d,
                                  error |-> None],
                             !.first_done = IF @ = 0 THEN i ELSE @]
    /\ UNCHANGED <<owner, accounts, owned, session, agg_logged_in>>
    /\ UNCHANGED <<aggVars, clientVars, fnCall, inflight>>

\* the client's get_book_details raises: except Exception returns str(e)
DetailsTaskRaises(i) ==
    /\ fan.op = "get_combined_details"
    /\ fan.phase = "running"
    /\ fan.tasks[i].pc = "waiting"
    /\ \E msg \in Messages :
          fan' = [fan EXCEPT !.tasks[i].pc = "done",
                             !.tasks[i].error = msg,
                             !.tasks[i].raised = TRUE,
                             !.results[GatherSlot(i, FanPcs)] =
                                 [slug |-> fan.tasks[i].slug, details |-> NoDetails,
                                  error |-> msg],
                             !.first_done = IF @ = 0 THEN i ELSE @]
    /\ UNCHANGED <<owner, accounts, owned, session, agg_logged_in>>
    /\ UNCHANGED <<aggVars, clientVars, fnCall, inflight>>

\* the gather is complete: get_combined_details runs to its return
DetailsCollect ==
    /\ fan.op = "get_combined_details"
    /\ fan.phase = "running"
    /\ FanAllDone
    /\ fan' = [op |-> fan.op, phase |-> "done", tasks |-> fan.tasks,
               results |-> fan.results, first_done |-> fan.first_done,
               ret |-> DetailsLoop(fan.results, NoCombined)]
    /\ UNCHANGED <<owner, accounts, owned, session, agg_logged_in>>
    /\ UNCHANGED <<aggVars, clientVars, fnCall, inflight>>

\* ---- LibraryAggregator.login_all ----

LoginValueKeepsException(outcome) ==
    IF outcome = "ok" THEN "True"
    ELSE IF outcome = "LoginError" THEN "False" ELSE "exception"

\* the value login_all stores for one gathered result: login() returned
\* True, returned False after a LoginError, or raised something else
LoginValue(outcome) == IF outcome = "ok" THEN "True" ELSE "False"

\* the dict comprehension over zip(self.accounts, results)
RECURSIVE LoginDict(_, _)
LoginDict(tasks, d) ==
    IF tasks = <<>> THEN d
    ELSE LoginDict(Tail(tasks),
                   DictSet(d, Head(tasks).key, LoginValue(Head(tasks).outcome)))

\* login_all up to its gather
LoginAllCall ==
    /\ owner = "LibraryAggregator"
    /\ FanIdle
    /\ fan' = [op |-> "login_all", phase |-> "running",
               tasks |-> [i \in 1..Len(accounts) |->
                             [key |-> account_id(accounts[i]), pc |-> "new",
                              outcome |-> "none"]],
               logged_in_before |-> agg_logged_in]
    /\ UNCHANGED <<owner, accounts, owned, session, agg_logged_in>>
    /\ UNCHANGED <<aggVars, clientVars, fnCall, inflight>>

\* LibraryAggregator.login up to its await
LoginTaskBegin(i) ==
    /\ fan.op = "login_all"
    /\ fan.phase = "running"
    /\ fan.tasks[i].pc = "new"
    /\ owned' = _get_or_create_client(owned, fan.tasks[i].key)
    /\ fan' = [fan EXCEPT !.tasks[i].pc = "waiting"]
    /\ UNCHANGED <<owner, accounts, session, agg_logged_in>>
    /\ UNCHANGED <<aggVars, clientVars, fnCall, inflight>>

\* the client's login returns or raises; LibraryAggregator.login adds the
\* account to _logged_in, turns a LoginError into False, lets the rest pass
LoginTaskEnd(i) ==
    /\ fan.op = "login_all"
    /\ fan.phase = "running"
    /\ fan.tasks[i].pc = "waiting"
    /\ \E page \in LoginPages :
          LET outcome == IF page.http /= "ok" THEN "HTTPError"
                         ELSE LoginVerdict(page)
              key == fan.tasks[i].key
          IN  /\ fan' = [fan EXCEPT !.tasks[i].pc = "done",
                                    !.tasks[i].outcome = outcome]
              /\ session' = IF outcome = "ok" THEN session \cup {key} ELSE session
              /\ agg_logged_in' = IF outcome = "ok" THEN agg_logged_in \cup {key}
                                  ELSE agg_logged_in
    /\ UNCHANGED <<owner, accounts, owned>>
    /\ UNCHANGED <<aggVars, clientVars, fnCall, inflight>>

\* the gather is complete: login_all builds its dict and returns
LoginAllCollect ==
    /\ fan.op = "login_all"
    /\ fan.phase = "running"
    /\ FanAllDone
    /\ fan' = [op |-> fan.op, phase |-> "done", tasks |-> fan.tasks,
               logged_in_before |-> fan.logged_in_before,
               ret |-> LoginDict(fan.tasks, <<>>)]
    /\ UNCHANGED <<owner, accounts, owned, session, agg_logged_in>>
    /\ UNCHANGED <<aggVars, clientVars, fnCall, inflight>>

\* ---- LibraryAggregator.get_all_checked_out_books, get_all_checkout_history ----

\* the records a client's get_checked_out_books or get_checkout_history
\* returns, before the aggregator sets account_id on them
RecordK == [title |-> <<"k">>]
RecordB == [title |-> <<"b">>]
RecordLists == {<<>>, <<RecordK>>, <<RecordK, RecordB>>}
ClientRecord(r, slug) ==
    [title |-> r.title, library_slug |-> slug, account_id |-> None]

NotLoggedInMessage == <<"k">>
SessionExpiredMessage == <<"m">>
\* str(e) of what the client's fetch raises
ErrorTexts(outcome) ==
    IF outcome = "HTTPError" THEN Messages
    ELSE IF outcome = "LibraryClientError" THEN {NotLoggedInMessage}
    ELSE IF outcome = "SessionExpiredError" THEN {SessionExpiredMessage}
    ELSE {None}

\* for book in books: book.account_id = account_id
Tag(records, key) ==
    [j \in 1..Len(records) |-> [records[j] EXCEPT !.account_id = key]]

\* one turn of the loop over the gathered (account_id, books, error) tuples
GetAllOne(acc, t) ==
    IF Truthy(t.error)
    THEN [acc EXCEPT !.errors = DictSet(acc.errors, t.key, t.error)]
    ELSE [acc EXCEPT !.books = acc.books \o t.books]

RECURSIVE GetAllLoop(_, _)
GetAllLoop(results, acc) ==
    IF results = <<>> THEN acc
    ELSE GetAllLoop(Tail(results), GetAllOne(acc, Head(results)))

\* get_all_checked_out_books and get_all_checkout_history up to the gather
GetAllCall(op) ==
    /\ owner = "LibraryAggregator"
    /\ FanIdle
    /\ fan' = [op |-> op, phase |-> "running",
               tasks |-> [i \in 1..Len(accounts) |->
                             [key |-> account_id(accounts[i]),
                              slug |-> accounts[i].slug,
                              pc |-> "new", outcome |-> "none",
                              fetched |-> <<>>, books |-> <<>>, error |-> None]],
               results |-> [i \in 1..Len(accounts) |-> NoBooks],
               first_done |-> 0,
               libraries |-> agg_logged_in]
    /\ UNCHANGED <<owner, accounts, owned, session, agg_logged_in>>
    /\ UNCHANGED <<aggVars, clientVars, fnCall, inflight>>

GetAllCheckedOutBooks == GetAllCall("get_all_checked_out_books")
GetAllCheckoutHistory == GetAllCall("get_all_checkout_history")

\* fetch_books_for_account and fetch_history_for_account up to the await:
\* an account that is not logged in or has no client returns (id, [], None)
GetAllTaskBegin(i) ==
    /\ fan.op \in {"get_all_checked_out_books", "get_all_checkout_history"}
    /\ fan.phase = "running"
    /\ fan.tasks[i].pc = "new"
    /\ LET key == fan.tasks[i].key IN
       IF key \notin agg_logged_in \/ ~(\E j \in 1..Len(owned) : owned[j] = key)
       THEN fan' = [fan EXCEPT !.tasks[i].pc = "done",
                               !.tasks[i].outcome = "skipped",
                               !.results[GatherSlot(i, FanPcs)] =
                                   [key |-> key, books |-> <<>>, error |-> None],
                               !.first_done = IF @ = 0 THEN i ELSE @]
       ELSE fan' = [fan EXCEPT !.tasks[i].pc = "waiting"]
    /\ UNCHANGED <<owner, accounts, owned, session, agg_logged_in>>
    /\ UNCHANGED <<aggVars, clientVars, fnCall, inflight>>

\* the client's fetch returns its records or raises
GetAllTaskEnd(i) ==
    /\ fan.op \in {"get_all_checked_out_books", "get_all_checkout_history"}
    /\ fan.phase = "running"
    /\ fan.tasks[i].pc = "waiting"
    /\ \E resp \in Responses :
          LET key == fan.tasks[i].key
              r == Fetch(key \in session, resp)
          IN  \E recs \in (IF r.outcome = "ok" THEN RecordLists ELSE {<<>>}),
                 msg \in ErrorTexts(r.outcome) :
                 LET fetched == [j \in 1..Len(recs) |->
                                    ClientRecord(recs[j], fan.tasks[i].slug)]
                 IN  /\ fan' = [fan EXCEPT !.tasks[i].pc = "done",
                                           !.tasks[i].outcome = r.outcome,
                                           !.tasks[i].fetched = fetched,
                                           !.tasks[i].books = Tag(fetched, key),
                                           !.tasks[i].error = msg,
                                           !.results[GatherSlot(i, FanPcs)] =
                                               [key |-> key,
                                                books |-> Tag(fetched, key),
                                                error |-> msg],
                                           !.first_done = IF @ = 0 THEN i ELSE @]
                     /\ session' = IF r.logged_in THEN session ELSE session \ {key}
    /\ UNCHANGED <<owner, accounts, owned, agg_logged_in>>
    /\ UNCHANGED <<aggVars, clientVars, fnCall, inflight>>

\* the gather is complete: the call runs to its return
GetAllCollect ==
    /\ fan.op \in {"get_all_checked_out_books", "get_all_checkout_history"}
    /\ fan.phase = "running"
    /\ FanAllDone
    /\ fan' = [op |-> fan.op, phase |-> "done", tasks |-> fan.tasks,
               libraries |-> fan.libraries,
               results |-> fan.results, first_done |-> fan.first_done,
               ret |-> GetAllLoop(fan.results, [books |-> <<>>, errors |-> <<>>])]
    /\ UNCHANGED <<owner, accounts, owned, session, agg_logged_in>>
    /\ UNCHANGED <<aggVars, clientVars, fnCall, inflight>>

NextFan ==
    \/ CloseCall
    \/ \E i \in FanTasks : CloseTaskEnd(i)
    \/ CloseCollect
    \/ FanDone
    \/ DetailsCall
    \/ \E i \in FanTasks : DetailsTaskBegin(i)
    \/ \E i \in FanTasks : DetailsTaskReturns(i)
    \/ \E i \in FanTasks : DetailsTaskRaises(i)
    \/ DetailsCollect
    \/ LoginAllCall
    \/ \E i \in FanTasks : LoginTaskBegin(i)
    \/ \E i \in FanTasks : LoginTaskEnd(i)
    \/ LoginAllCollect
    \/ GetAllCheckedOutBooks
    \/ GetAllCheckoutHistory
    \/ \E i \in FanTasks : GetAllTaskBegin(i)
    \/ \E i \in FanTasks : GetAllTaskEnd(i)
    \/ GetAllCollect

SpecFan == InitFan /\ [][NextFan]_vars

---------------------------------------------------------------------------
(* Claims about the aggregators' other fan-out calls                       *)

Returned_(op) == fan.op = op /\ fan.phase = "done"

\* the tasks of get_combined_details whose fetch returned a BookDetails, in
\* input order
FoundDetails(t) == ~t.raised /\ ~t.details.none
FoundTasks == SelectSeq(fan.tasks, FoundDetails)

\* C12: when get_combined_details has returned, every pair whose fetch
\* raised has its portal in errors, library_details holds the BookDetails
\* of the pairs whose fetch succeeded, in input order, and the combined
\* title, author, series and series_number are those of the first of them.
C12_CombinedDetails ==
    Returned_("get_combined_details") =>
        /\ \A i \in FanTasks :
              fan.tasks[i].raised => DictHas(fan.ret.errors, fan.tasks[i].slug)
        /\ fan.ret.library_details =
              [j \in 1..Len(FoundTasks) |-> FoundTasks[j].details]
        /\ FoundTasks /= <<>> =>
              /\ fan.ret.title = FoundTasks[1].details.title
              /\ fan.ret.author = FoundTasks[1].details.author
              /\ fan.ret.series = FoundTasks[1].details.series
              /\ fan.ret.series_number = FoundTasks[1].details.series_number

\* C13: when close() of either aggregator has returned, close was invoked
\* on every client the aggregator owned, also when closing some of them
\* raised; close did not raise; the aggregator owns no client and, for a
\* LibraryAggregator, has no logged-in account.  A close of an aggregator
\* that owns nothing invokes nothing.
C13_CloseAll ==
    Returned_("close") =>
        /\ ~fan.raises
        /\ Len(fan.tasks) = Len(fan.owned_before)
        /\ \A i \in 1..Len(fan.owned_before) :
              \E j \in FanTasks : /\ fan.tasks[j].key = fan.owned_before[i]
                                  /\ fan.tasks[j].pc = "done"
        /\ owned = <<>>
        /\ agg_logged_in = {}
        /\ fan.owned_before = <<>> => fan.tasks = <<>>

\* a close of several clients, one of which raised
C13_Witness ==
    /\ Returned_("close")
    /\ Len(fan.owned_before) >= 2
    /\ \E i \in FanTasks : fan.tasks[i].raised
    /\ \E i \in FanTasks : ~fan.tasks[i].raised
    /\ owned = <<>>

\* C14 as stated: when login_all has returned, its map has one entry per
\* configured account id, True exactly for the accounts whose login
\* succeeded (a login that raised, LoginError or not, gives False), and an
\* account id is in the aggregator's logged-in set exactly when its entry
\* is True.
C14_LoginAll ==
    Returned_("login_all") =>
        /\ Len(fan.ret) = Len(accounts)
        /\ \A i \in 1..Len(accounts) :
              /\ fan.ret[i].key = account_id(accounts[i])
              /\ fan.ret[i].value = "True" <=> fan.tasks[i].outcome = "ok"
              /\ fan.ret[i].value \in {"True", "False"}
              /\ fan.ret[i].key \in agg_logged_in <=> fan.ret[i].value = "True"

\* C14 amended: when login_all has returned, its map has one entry per
\* configured account id, True exactly for the accounts whose login
\* succeeded (a login that raised, LoginError or not, gives False); an
\* account whose entry is True is in the aggregator's logged-in set, and an
\* account whose entry is False is in it exactly when it was in it before
\* the call.
C14_LoginAllAmended ==
    Returned_("login_all") =>
        /\ Len(fan.ret) = Len(accounts)
        /\ \A i \in 1..Len(accounts) :
              /\ fan.ret[i].key = account_id(accounts[i])
              /\ fan.ret[i].value = "True" <=> fan.tasks[i].outcome = "ok"
              /\ fan.ret[i].value \in {"True", "False"}
              /\ fan.ret[i].value = "True" => fan.ret[i].key \in agg_logged_in
              /\ fan.ret[i].value = "False" =>
                    (fan.ret[i].key \in agg_logged_in
                        <=> fan.ret[i].key \in fan.logged_in_before)

\* a login_all in which one account logged in, one login raised something
\* other than LoginError, and an account that failed is still in the
\* logged-in set from an earlier login_all
C14_Witness ==
    /\ Returned_("login_all")
    /\ \E i \in FanTasks : fan.ret[i].value = "True"
    /\ \E i \in FanTasks : fan.tasks[i].outcome = "HTTPError"
    /\ \E i \in FanTasks : /\ fan.ret[i].value = "False"
                           /\ fan.ret[i].key \in agg_logged_in

GetAllOps == {"get_all_checked_out_books", "get_all_checkout_history"}
FetchRaised(t) ==
    t.outcome \in {"HTTPError", "LibraryClientError", "SessionExpiredError"}

\* C15: when get_all_checked_out_books or get_all_checkout_history has
\* returned, every logged-in account whose fetch raised has an entry in
\* errors under its account id; every record fetched by an account whose
\* fetch succeeded is in the result, tagged with that account's id, and
\* the result holds nothing else; an account whose fetch succeeded has no
\* entry in errors.
C15_GetAll ==
    (fan.op \in GetAllOps /\ fan.phase = "done") =>
        /\ \A i \in FanTasks :
              FetchRaised(fan.tasks[i]) => DictHas(fan.ret.errors, fan.tasks[i].key)
        /\ \A i \in FanTasks :
              fan.tasks[i].outcome = "ok" =>
                 /\ ~DictHas(fan.ret.errors, fan.tasks[i].key)
                 /\ \A j \in 1..Len(fan.tasks[i].fetched) :
                       \E n \in 1..Len(fan.ret.books) :
                          fan.ret.books[n] =
                             [fan.tasks[i].fetched[j] EXCEPT
                                 !.account_id = fan.tasks[i].key]
        /\ \A n \in 1..Len(fan.ret.books) :
              \E i \in FanTasks :
                 /\ fan.tasks[i].outcome = "ok"
                 /\ fan.ret.books[n].account_id = fan.tasks[i].key
                 /\ \E j \in 1..Len(fan.tasks[i].fetched) :
                       fan.tasks[i].fetched[j] =
                          [fan.ret.books[n] EXCEPT !.account_id = None]

---------------------------------------------------------------------------
(* Further claims about LibraryClient                                      *)

\* C16: download_html sends no request to a host other than the client's
\* own portal: given a path that names another host (an absolute URL on
\* another domain, or a path that starts with //) it raises before any
\* HTTP request.
C16_OwnHostOnly ==
    call.op = "download_html" =>
        /\ call.host \in {"none", "own"}
        /\ call.path \in {"absolute_other", "protocol_relative"} =>
              /\ call.requests = 0
              /\ call.outcome \notin {"ok", "none"}

---------------------------------------------------------------------------
(* The functions: normalize_text and LibraryClient._parse_date             *)

\* the characters of the texts normalize_text is given on its own: a
\* letter, a digit, the underscore, a space and a comma
TextChars == {"k", "1", "_", " ", ","}
Texts == SeqsUpTo(TextChars, MaxTextLen) \cup {None}

InitFn ==
    /\ IdleAggregator
    /\ IdleClient
    /\ IdleFan
    /\ fnCall = NoFnCall
    /\ IdleInflight

\* normalize_text(text); the call before it is kept, to compare the two
NormalizeCall ==
    /\ fnCall.fn \in {"none", "normalize_text"}
    /\ fnCall.calls < 2
    /\ \E text \in Texts :
          fnCall' = [fn |-> "normalize_text", calls |-> fnCall.calls + 1,
                     text |-> text, result |-> normalize_text(text),
                     prev_text |-> IF fnCall.calls = 0 THEN None ELSE fnCall.text,
                     prev_result |-> IF fnCall.calls = 0 THEN None
                                     ELSE fnCall.result]
    /\ UNCHANGED <<aggVars, clientVars, fanVars, inflight>>


\* ---- LibraryClient._parse_date ----

\* a date string is a sequence of characters in which a weekday name, which
\* the code only deletes, is one element
HEBREW_DAYS == <<"rishon", "sheni", "shlishi", "revii", "hamishi", "shishi", "shabbat">>
DayNames == {HEBREW_DAYS[i] : i \in 1..Len(HEBREW_DAYS)}
Digits == <<"0", "1", "2", "3", "4", "5", "6", "7", "8", "9">>
IsDigit(c) == \E i \in 1..Len(Digits) : Digits[i] = c
DigitValue(c) == (CHOOSE i \in 1..Len(Digits) : Digits[i] = c) - 1

\* the date _parse_date returns; NoDate stands for None
NoDate == [year |-> 0, month |-> 0, day |-> 0]

\* the strings the loans and history tables hold, without decoration, and
\* the calendar date each writes in one of the four layouts, if any
Bodies ==
    {
     [chars |-> <<"1", "7", "/", "1", "2", "/", "2", "0", "2", "5">>,
      date |-> [year |-> 2025, month |-> 12, day |-> 17]],
     [chars |-> <<"1", "7", "-", "1", "2", "-", "2", "0", "2", "5">>,
      date |-> [year |-> 2025, month |-> 12, day |-> 17]],
     [chars |-> <<"2", "0", "2", "5", "-", "1", "2", "-", "1", "7">>,
      date |-> [year |-> 2025, month |-> 12, day |-> 17]],
     [chars |-> <<"1", "7", ".", "1", "2", ".", "2", "0", "2", "5">>,
      date |-> [year |-> 2025, month |-> 12, day |-> 17]],
     [chars |-> <<"7", "/", "1", "/", "2", "0", "2", "5">>,
      date |-> [year |-> 2025, month |-> 1, day |-> 7]],
     [chars |-> <<"2", "9", "/", "0", "2", "/", "2", "0", "2", "4">>,
      date |-> [year |-> 2024, month |-> 2, day |-> 29]],
     [chars |-> <<"2", "9", "/", "0", "2", "/", "2", "0", "2", "5">>,
      date |-> NoDate],
     [chars |-> <<"2", "0", "2", "5", "/", "1", "2", "/", "1", "7">>,
      date |-> NoDate],
     [chars |-> <<"1", "7", "/", "1", "2", "/", "2", "5">>,
      date |-> NoDate],
     [chars |-> <<"3", "2", "/", "1", "2", "/", "2", "0", "2", "5">>,
      date |-> NoDate],
     [chars |-> <<"1", "2", "/", "2", "0", "2", "5">>,
      date |-> NoDate],
     [chars |-> <<>>,
      date |-> NoDate]
    }

\* what precedes the date in a cell, and what may be put into it
Prefixes ==
    {<<>>, <<",", " ">>, <<" ">>}
        \cup {<<d, ",", " ">> : d \in DayNames}
        \cup {<<d, ",">> : d \in DayNames}
        \cup {<<d, " ">> : d \in DayNames}
Inserts == {<<>>, <<",">>} \cup {<<d>> : d \in {"sheni", "shabbat"}}
Insert(s, pos, ins) == SubSeq(s, 1, pos) \o ins \o SubSeq(s, pos + 1, Len(s))

\* str.replace(day, "")
Remove(s, day) == SelectSeq(s, LAMBDA c : c /= day)

\* for day in HEBREW_DAYS: date_str = date_str.replace(day, "").strip()
RECURSIVE RemoveDays(_, _)
RemoveDays(s, days) ==
    IF days = <<>> THEN s
    ELSE RemoveDays(Strip(Remove(s, Head(days))), Tail(days))

\* str.lstrip(", ")
RECURSIVE LStripCommaSpace(_)
LStripCommaSpace(s) ==
    IF s /= <<>> /\ Head(s) \in {",", " "} THEN LStripCommaSpace(Tail(s)) ELSE s

\* the fields of s between the occurrences of sep
RECURSIVE Split(_, _, _)
Split(s, sep, cur) ==
    IF s = <<>> THEN <<cur>>
    ELSE IF Head(s) = sep THEN <<cur>> \o Split(Tail(s), sep, <<>>)
    ELSE Split(Tail(s), sep, Append(cur, Head(s)))

AllDigits(f) == \A i \in 1..Len(f) : IsDigit(f[i])
RECURSIVE Number(_)
Number(f) ==
    IF f = <<>> THEN 0
    ELSE 10 * Number(SubSeq(f, 1, Len(f) - 1)) + DigitValue(f[Len(f)])

\* strptime's %d: 3[0-1]|[1-2]\d|0[1-9]|[1-9]| [1-9]; 0 when f is no match
DayField(f) ==
    IF Len(f) \in {1, 2} /\ AllDigits(f) /\ Number(f) \in 1..31 THEN Number(f)
    ELSE IF Len(f) = 2 /\ f[1] = " " /\ IsDigit(f[2]) /\ DigitValue(f[2]) >= 1
    THEN DigitValue(f[2])
    ELSE 0
\* strptime's %m: 1[0-2]|0[1-9]|[1-9]
MonthField(f) ==
    IF Len(f) \in {1, 2} /\ AllDigits(f) /\ Number(f) \in 1..12 THEN Number(f) ELSE 0
\* strptime's %Y: \d\d\d\d
YearField(f) ==
    IF Len(f) = 4 /\ AllDigits(f) THEN Number(f) ELSE 0

IsLeap(y) == y % 4 = 0 /\ (y % 100 /= 0 \/ y % 400 = 0)
DaysIn(m, y) ==
    IF m = 2 THEN (IF IsLeap(y) THEN 29 ELSE 28)
    ELSE IF m \in {4, 6, 9, 11} THEN 30 ELSE 31

\* the four formats, in the order they are tried
Formats == <<[sep |-> "/", year_first |-> FALSE], [sep |-> "-", year_first |-> FALSE],
             [sep |-> "-", year_first |-> TRUE], [sep |-> ".", year_first |-> FALSE]>>

\* datetime.strptime(date_str, fmt).date(); NoDate stands for ValueError
Strptime(s, fmt) ==
    LET f == Split(s, fmt.sep, <<>>) IN
    IF Len(f) /= 3 THEN NoDate
    ELSE LET y == YearField(IF fmt.year_first THEN f[1] ELSE f[3])
             m == MonthField(f[2])
             d == DayField(IF fmt.year_first THEN f[3] ELSE f[1])
         IN  IF y >= 1 /\ m >= 1 /\ d >= 1 /\ d <= DaysIn(m, y)
             THEN [year |-> y, month |-> m, day |-> d]
             ELSE NoDate

RECURSIVE TryFormats(_, _)
TryFormats(s, fmts) ==
    IF fmts = <<>> THEN NoDate
    ELSE IF Strptime(s, Head(fmts)) /= NoDate THEN Strptime(s, Head(fmts))
    ELSE TryFormats(s, Tail(fmts))

ParseDateNoLstrip(date_str) ==
    IF date_str = <<>> THEN NoDate
    ELSE TryFormats(Strip(RemoveDays(Strip(date_str), HEBREW_DAYS)), Formats)

_parse_date(date_str) ==
    IF date_str = <<>> THEN NoDate
    ELSE TryFormats(Strip(LStripCommaSpace(RemoveDays(Strip(date_str), HEBREW_DAYS))),
                    Formats)

\* _parse_date(date_str) of a date string made of a body, what precedes it
\* and what is put into it
ParseDateCall ==
    /\ fnCall.fn = "none"
    /\ \E body \in Bodies, pre \in Prefixes, ins \in Inserts :
          \E pos \in 0..Len(body.chars) :
             LET date_str == pre \o Insert(body.chars, pos, ins) IN
             fnCall' = [fn |-> "_parse_date", calls |-> 1, date_str |-> date_str,
                        body |-> body, pre |-> pre, ins |-> ins, pos |-> pos,
                        result |-> _parse_date(date_str)]
    /\ UNCHANGED <<aggVars, clientVars, fanVars, inflight>>

---------------------------------------------------------------------------
(* LibraryClient._parse_loans_page and _parse_history_page                 *)

\* the most tables a page holds
MaxTables == 2

\* the media types _parse_loan_row knows; like a weekday name, each is one
\* element of a text
MEDIA_TYPES == {<<"sfarim">>, <<"sratim">>, <<"taklitorim">>, <<"kitvei et">>}

\* str.isdigit()
IsDigitText(text) == text /= <<>> /\ AllDigits(text)

\* a td of a loans row: its get_text(strip=True), and whether it holds an <a>
Cell(text, link) == [text |-> text, link |-> link]

\* the input named cid[] of a row: absent, without a value attribute, with
\* an empty value, with a barcode as its value
NoCheckbox == [present |-> FALSE, value |-> None]
Checkboxes == {NoCheckbox, [present |-> TRUE, value |-> None],
               [present |-> TRUE, value |-> <<>>],
               [present |-> TRUE, value |-> <<"1", "1">>]}

\* what the title cell of a row says
TitleTexts == {<<>>, <<"k">>, <<"k", "1">>, <<"k", "o", "l">>, <<"1", "9", "8", "4">>}
\* what the copy-number cell of a row says: a linked number, or nothing
CopyCells == {Cell(<<"1", "1">>, TRUE), Cell(<<>>, FALSE)}
\* what a column the parser does not expect says
ExtraTexts == {<<>>, <<"n", "e", "w">>, <<"5">>,
               <<"7", "/", "1", "/", "2", "0", "2", "5">>}

CheckoutText == <<"1", "7", "/", "1", "1", "/", "2", "0", "2", "5">>
DueText == <<"rishon", ",", " ", "1", "7", "/", "1", "2", "/", "2", "0", "2", "5">>

\* a row of the loans table in the layout the docstring of _parse_loans_page
\* gives: checkbox, number, media, copy number, title, checkout date, due
\* date, days remaining
LoanRow(checkbox, copy, title) ==
    [checkbox |-> checkbox,
     title_cell |-> title,
     extra |-> FALSE,
     cells |-> <<Cell(<<>>, FALSE), Cell(<<"1">>, FALSE), Cell(<<"sfarim">>, FALSE),
                 copy, Cell(title, FALSE), Cell(CheckoutText, FALSE),
                 Cell(DueText, FALSE), Cell(<<"7">>, FALSE)>>]
\* the row with one more cell after its first pos cells
WithExtra(row, pos, text) ==
    [row EXCEPT !.cells = Insert(@, pos, <<Cell(text, FALSE)>>), !.extra = TRUE]

PlainRow == LoanRow([present |-> TRUE, value |-> <<"1">>], Cell(<<"1">>, TRUE),
                    <<"b", "e", "t">>)
\* a row of fewer than five cells, as a summary line has
ShortRow == [checkbox |-> NoCheckbox, title_cell |-> <<>>, extra |-> FALSE,
             cells |-> <<Cell(<<"s", "u", "m">>, FALSE), Cell(<<"2">>, FALSE)>>]

\* the rows the parser is tried on: the expected layout, and the expected
\* layout with one more column
RichRows ==
    {LoanRow(cb, copy, title) :
        cb \in Checkboxes, copy \in CopyCells, title \in TitleTexts}
    \cup
    UNION {{WithExtra(LoanRow(cb, copy, title), pos, text) :
                pos \in 0..8, text \in ExtraTexts} :
           cb \in Checkboxes, copy \in CopyCells, title \in TitleTexts}

\* a table of the page: whether a th of it holds the title keyword, and its
\* rows after the first
LoanTables ==
    {[anchor |-> TRUE, rows |-> <<PlainRow, ShortRow>>],
     [anchor |-> TRUE,
      rows |-> <<LoanRow([present |-> TRUE, value |-> <<"1", "1">>],
                         Cell(<<"1", "1">>, TRUE), <<"k", "o", "l">>)>>],
     [anchor |-> FALSE, rows |-> <<PlainRow>>],
     [anchor |-> TRUE, rows |-> <<>>]}

\* the pages the parser is tried on: one loans table with any of the rows
\* and a row after it, and up to MaxTables tables
LoanPages ==
    {<<[anchor |-> TRUE, rows |-> <<row, PlainRow>>]>> : row \in RichRows}
    \cup SeqsUpTo(LoanTables, MaxTables)

NoBook == [none |-> TRUE]

\* one turn of the loop over cell_texts
LoanCell(acc, cell) ==
    IF cell.link /\ IsDigitText(cell.text)
    THEN [acc EXCEPT !.barcode = IF ~Truthy(@) THEN cell.text ELSE @]
    ELSE IF cell.text \in MEDIA_TYPES
    THEN [acc EXCEPT !.media_type = cell.text]
    ELSE IF _parse_date(cell.text) /= NoDate
    THEN (LET parsed_date == _parse_date(cell.text) IN
          IF acc.checkout_date = NoDate
          THEN [acc EXCEPT !.checkout_date = parsed_date]
          ELSE IF acc.due_date = NoDate
          THEN [acc EXCEPT !.due_date = parsed_date]
          ELSE acc)
    ELSE IF IsDigitText(cell.text) THEN acc
    ELSE IF cell.text /= <<>> /\ Len(cell.text) > 2
    THEN [acc EXCEPT !.title = cell.text]
    ELSE acc

RECURSIVE LoanCells(_, _)
LoanCells(cells, acc) ==
    IF cells = <<>> THEN acc ELSE LoanCells(Tail(cells), LoanCell(acc, Head(cells)))

\* NoBook stands for None; library_slug is left out
_parse_loan_row(cells, row) ==
    IF Len(cells) < 5 THEN NoBook
    ELSE LET acc == LoanCells(cells,
                        [barcode |-> row.checkbox.value, media_type |-> None,
                         title |-> None, checkout_date |-> NoDate,
                         due_date |-> NoDate])
         IN  IF ~Truthy(acc.title) THEN NoBook
             ELSE [none |-> FALSE, title |-> acc.title, barcode |-> acc.barcode,
                   media_type |-> acc.media_type,
                   checkout_date |-> acc.checkout_date, due_date |-> acc.due_date,
                   can_renew |-> row.checkbox.present]

\* the loop over the rows of one table
RECURSIVE LoanTableRows(_)
LoanTableRows(rows) ==
    IF rows = <<>> THEN <<>>
    ELSE LET book == IF Len(Head(rows).cells) < 5 THEN NoBook
                     ELSE _parse_loan_row(Head(rows).cells, Head(rows))
         IN  (IF book.none THEN <<>> ELSE <<book>>) \o LoanTableRows(Tail(rows))

\* the loop over the tables of the page
RECURSIVE _parse_loans_page(_)
_parse_loans_page(tables) ==
    IF tables = <<>> THEN <<>>
    ELSE (IF Head(tables).anchor THEN LoanTableRows(Head(tables).rows) ELSE <<>>)
         \o _parse_loans_page(Tail(tables))

ParseLoansCall ==
    /\ fnCall.fn = "none"
    /\ \E tables \in LoanPages :
          fnCall' = [fn |-> "_parse_loans_page", calls |-> 1, tables |-> tables,
                     raised |-> FALSE, result |-> _parse_loans_page(tables)]
    /\ UNCHANGED <<aggVars, clientVars, fanVars, inflight>>

\* ---- LibraryClient._parse_history_page ----

\* the th texts of a table; each is the keyword it holds
HistoryHeaders == <<"media", "copy", "author", "title", "checkout", "return",
                    "days", "late">>
\* rows of td texts
HistoryRowK == <<<<"sfarim">>, <<"1", "1">>, <<"m">>, <<"k", "o", "l">>,
                 CheckoutText, DueText, <<"7">>, <<"0">>>>
HistoryRowB == <<<<"sratim">>, <<>>, <<>>, <<"b">>, CheckoutText, <<>>, <<"7">>, <<"0">>>>
HistoryRowNoTitle == <<<<"sfarim">>, <<"1">>, <<"m">>, <<>>, CheckoutText, DueText,
                       <<"7">>, <<"0">>>>
HistoryRowShort == <<<<"s", "u", "m">>, <<"2">>>>
HistoryTables ==
    {[headers |-> HistoryHeaders, rows |-> <<HistoryRowK>>],
     [headers |-> HistoryHeaders,
      rows |-> <<HistoryRowB, HistoryRowNoTitle, HistoryRowShort>>],
     [headers |-> <<"media", "copy", "title", "checkout", "return", "days">>,
      rows |-> <<HistoryRowK>>],
     [headers |-> <<"author", "title", "checkout", "return">>,
      rows |-> <<<<<<"m">>, <<"g", "a", "n">>, CheckoutText, <<>>>>>>]}

\* _find_header_index, counted from 0; -1 when no header holds the keyword
_find_header_index(headers, keyword) ==
    IF \E i \in 1..Len(headers) : headers[i] = keyword
    THEN (CHOOSE i \in 1..Len(headers) :
             /\ headers[i] = keyword
             /\ \A j \in 1..(i - 1) : headers[j] /= keyword) - 1
    ELSE -1

\* get_cell(key) of _parse_history_row
get_cell(cell_texts, idx) ==
    IF 0 <= idx /\ idx < Len(cell_texts) THEN cell_texts[idx + 1] ELSE <<>>

OrNone(text) == IF text = <<>> THEN None ELSE text

\* NoBook stands for None; library_slug is left out
_parse_history_row(cells, headers) ==
    LET title == get_cell(cells, _find_header_index(headers, "title")) IN
    IF title = <<>> THEN NoBook
    ELSE [none |-> FALSE, title |-> title,
          author |-> OrNone(get_cell(cells, _find_header_index(headers, "author"))),
          barcode |-> OrNone(get_cell(cells, _find_header_index(headers, "copy"))),
          media_type |-> OrNone(get_cell(cells, _find_header_index(headers, "media"))),
          checkout_date |->
              _parse_date(get_cell(cells, _find_header_index(headers, "checkout"))),
          return_date |->
              _parse_date(get_cell(cells, _find_header_index(headers, "return")))]

\* the loop over the rows of one table
RECURSIVE HistoryTableRows(_, _)
HistoryTableRows(rows, headers) ==
    IF rows = <<>> THEN <<>>
    ELSE LET item == IF Len(Head(rows)) < 4 THEN NoBook
                     ELSE _parse_history_row(Head(rows), headers)
         IN  (IF item.none THEN <<>> ELSE <<item>>)
             \o HistoryTableRows(Tail(rows), headers)

HasAuthorHeader(table) == \E i \in 1..Len(table.headers) : table.headers[i] = "author"

\* the loop over the tables of the page
RECURSIVE _parse_history_page(_)
_parse_history_page(tables) ==
    IF tables = <<>> THEN <<>>
    ELSE (IF HasAuthorHeader(Head(tables))
          THEN HistoryTableRows(Head(tables).rows, Head(tables).headers)
          ELSE <<>>)
         \o _parse_history_page(Tail(tables))

ParseHistoryCall ==
    /\ fnCall.fn = "none"
    /\ \E tables \in SeqsUpTo(HistoryTables, MaxTables) :
          fnCall' = [fn |-> "_parse_history_page", calls |-> 1, tables |-> tables,
                     raised |-> FALSE, result |-> _parse_history_page(tables)]
    /\ UNCHANGED <<aggVars, clientVars, fanVars, inflight>>

NextFn ==
    \/ NormalizeCall
    \/ ParseDateCall
    \/ ParseLoansCall
    \/ ParseHistoryCall

SpecFn == InitFn /\ [][NextFn]_vars

---------------------------------------------------------------------------
(* Claims about the functions                                              *)

IsDayName(c) == c \in DayNames
\* the prefix the claim allows: nothing, or a weekday name and a comma
PlainPrefix(pre) ==
    \/ pre = <<>>
    \/ /\ Len(pre) \in {2, 3}
       /\ IsDayName(pre[1])
       /\ pre[2] = ","
\* a weekday name stands somewhere other than at the head of the string
DayNameInside ==
    /\ fnCall.ins /= <<>>
    /\ IsDayName(fnCall.ins[1])
    /\ fnCall.pos > 0 \/ fnCall.pre /= <<>>

\* C18 as stated: for a string in one of the four layouts, with or without
\* a leading weekday name and comma, _parse_date returns the calendar date
\* the string writes; for a string that is not in one of the layouts, also
\* for the empty string and for a string with a weekday name anywhere but
\* at its head, it returns None.
C18_ParseDate ==
    fnCall.fn = "_parse_date" =>
        /\ (PlainPrefix(fnCall.pre) /\ fnCall.ins = <<>>)
              => fnCall.result = fnCall.body.date
        /\ DayNameInside => fnCall.result = NoDate
        /\ fnCall.date_str = <<>> => fnCall.result = NoDate

\* C18 amended: _parse_date deletes the weekday names wherever they stand,
\* then leading commas and spaces and the whitespace around; it returns
\* the calendar date that what is left writes in one of the four layouts,
\* and None when what is left is in none of them; so a string in one of
\* the layouts gives the same date with and without a leading weekday name
\* and comma, and the empty string gives None.
C18_ParseDateAmended ==
    fnCall.fn = "_parse_date" =>
        /\ (PlainPrefix(fnCall.pre) /\ fnCall.ins = <<>>)
              => fnCall.result = fnCall.body.date
        /\ fnCall.result =
              (IF fnCall.ins = <<",">> /\ (fnCall.pos > 0 \/ fnCall.body.chars = <<>>)
               THEN NoDate ELSE fnCall.body.date)
        /\ fnCall.date_str = <<>> => fnCall.result = NoDate

\* a date read from behind a weekday name and a comma
C18_Witness ==
    /\ fnCall.fn = "_parse_date"
    /\ fnCall.pre = <<"revii", ",", " ">>
    /\ fnCall.ins = <<>>
    /\ fnCall.body.date = [year |-> 2025, month |-> 12, day |-> 17]
    /\ fnCall.result = fnCall.body.date

---------------------------------------------------------------------------
(* Further claims about _merge_and_rank                                    *)

\* the order of the member list: rank first, portal id second
HitBefore(h1, h2) ==
    h1.rank < h2.rank \/ (h1.rank = h2.rank /\ SlugLess(h1.slug, h2.slug))
\* the hits of a set in that order
InOrder(hits) ==
    [m \in 1..Cardinality(hits) |->
        (CHOOSE h \in hits :
            Cardinality({h2 \in hits : HitBefore(h2, h)}) = m - 1).result]
\* of every portal with a hit in the group, its best-ranked one
BestPerPortal(grp) ==
    {h \in grp : \A h2 \in grp : h2.slug = h.slug => h.rank <= h2.rank}

BestOf(grp) == CHOOSE h \in grp : \A h2 \in grp : h2 = h \/ HitBefore(h, h2)

\* C20: title, author, series and series_number of every merged entry are
\* those of the member of its group with the least rank and, among several
\* of that rank, the one whose portal id sorts first, whatever the order of
\* library_slugs; that member is the first of library_results.
C20_Representative ==
    aggPhase = "done" =>
        \A e \in 1..Len(aggRet.items) :
            LET best == BestOf(GroupOf(aggRet.items[e])).result
                entry == aggRet.items[e]
            IN  /\ entry.title = best.title
                /\ entry.author = best.author
                /\ entry.series = best.series
                /\ entry.series_number = best.series_number
                /\ entry.library_results[1] = best

\* two portals have the book at the same least rank under different
\* spellings, and the one listed later in library_slugs is the representative
C20_Witness ==
    /\ aggPhase = "done"
    /\ \E e \in 1..Len(aggRet.items) :
          LET grp == GroupOf(aggRet.items[e]) IN
          \E h1, h2 \in grp :
             /\ h1.rank = h2.rank
             /\ h1.rank = BestRankOf(grp)
             /\ h1.result.title /= h2.result.title
             /\ h1.idx < h2.idx
             /\ SlugLess(h2.slug, h1.slug)
             /\ aggRet.items[e].title = h2.result.title


---------------------------------------------------------------------------
(* The fan-out calls of both aggregators                                   *)

\* a SearchAggregator running search(), or an aggregator running its other
\* fan-out calls
InitFanOut == InitAggregator \/ InitFan

NextFanOut ==
    \/ owner = "none" /\ NextAggregator
    \/ owner /= "none" /\ NextFan

SpecFanOut == InitFanOut /\ [][NextFanOut]_vars

\* what the task of the i-th portal of library_slugs returned
PortalTuple(i) ==
    CHOOSE t \in {taskResult[j] : j \in Tasks} : t.slug = library_slugs[i]
\* what the i-th task of a fan-out call returned
FanTuple(i) ==
    IF fan.op = "get_combined_details"
    THEN [slug |-> fan.tasks[i].slug, details |-> fan.tasks[i].details,
          error |-> fan.tasks[i].error]
    ELSE [key |-> fan.tasks[i].key, books |-> fan.tasks[i].books,
          error |-> fan.tasks[i].error]

\* C21: search, get_combined_details and the get_all_* calls return only
\* when every per-portal task is done, and what they return is what their
\* collecting loop makes of the tasks' tuples taken in the order of the
\* input (library_slugs, the pairs, the accounts), whatever the order in
\* which the tasks completed.
C21_CompletionOrder ==
    /\ aggPhase = "done" =>
          /\ \A i \in Tasks : taskPc[i] = "done"
          /\ LET acc == CollectLoop([i \in Tasks |-> PortalTuple(i)],
                            [all_results |-> <<>>, library_info |-> <<>>,
                             errors |-> <<>>])
             IN  aggRet = [items        |-> _merge_and_rank(acc.all_results),
                           library_info |-> acc.library_info,
                           errors       |-> acc.errors]
    /\ Returned_("get_combined_details") =>
          /\ FanAllDone
          /\ fan.ret = DetailsLoop([i \in FanTasks |-> FanTuple(i)], NoCombined)
    /\ (fan.op \in GetAllOps /\ fan.phase = "done") =>
          /\ FanAllDone
          /\ fan.ret = GetAllLoop([i \in FanTasks |-> FanTuple(i)],
                                  [books |-> <<>>, errors |-> <<>>])

\* a get_combined_details whose last task completed first; it found a book
\* and so did the first task, whose book is the first of the result
C21_Witness ==
    /\ Returned_("get_combined_details")
    /\ Len(fan.tasks) >= 2
    /\ fan.first_done = Len(fan.tasks)
    /\ FoundDetails(fan.tasks[1])
    /\ FoundDetails(fan.tasks[Len(fan.tasks)])
    /\ fan.tasks[1].details.title /= fan.tasks[Len(fan.tasks)].details.title
    /\ fan.ret.title = fan.tasks[1].details.title
    /\ Len(fan.ret.library_details) >= 2


---------------------------------------------------------------------------
(* Claims about the page parsers                                           *)

ParsedLoans == fnCall.fn = "_parse_loans_page"
ParsedHistory == fnCall.fn = "_parse_history_page"

\* C23: every CheckedOutBook _parse_loans_page returns that has can_renew
\* set has a barcode that is neither None nor empty, whatever the row's
\* checkbox and cells are.
C23_RenewableHasBarcode ==
    ParsedLoans =>
        \A i \in 1..Len(fnCall.result) :
            fnCall.result[i].can_renew => Truthy(fnCall.result[i].barcode)

\* the tables of the page that the parser takes for its table
Matching(tables) ==
    {i \in 1..Len(tables) :
        IF ParsedLoans THEN tables[i].anchor ELSE HasAuthorHeader(tables[i])}
FirstMatching(tables) ==
    CHOOSE i \in Matching(tables) : \A j \in Matching(tables) : i <= j

\* C24: the records _parse_loans_page and _parse_history_page return are
\* those of the rows of the first table of the page whose header matches,
\* and of no other table; they return nothing when no table matches.
C24_FirstTableOnly ==
    (ParsedLoans \/ ParsedHistory) =>
        LET tables == fnCall.tables IN
        IF Matching(tables) = {} THEN fnCall.result = <<>>
        ELSE LET table == tables[FirstMatching(tables)] IN
             fnCall.result = IF ParsedLoans THEN LoanTableRows(table.rows)
                             ELSE HistoryTableRows(table.rows, table.headers)

\* the texts of the title cells of the rows that have one
RECURSIVE TitleCells(_)
TitleCells(rows) ==
    IF rows = <<>> THEN <<>>
    ELSE (IF Head(rows).title_cell /= <<>> THEN <<Head(rows).title_cell>> ELSE <<>>)
         \o TitleCells(Tail(rows))

\* C25: given one loans table, a row of which has one more column than the
\* expected layout, at any position, _parse_loans_page does not raise and
\* returns one record per row whose title cell is not empty, in row order,
\* each with the text of that cell as its title.
C25_ExtraColumn ==
    (/\ ParsedLoans
     /\ Len(fnCall.tables) = 1
     /\ fnCall.tables[1].anchor
     /\ \E r \in 1..Len(fnCall.tables[1].rows) : fnCall.tables[1].rows[r].extra) =>
        /\ ~fnCall.raised
        /\ [i \in 1..Len(fnCall.result) |-> fnCall.result[i].title]
              = TitleCells(fnCall.tables[1].rows)


---------------------------------------------------------------------------
(* Further claims about LibraryClient: renewal, search, login              *)

\* the rows of the post-renewal loans table with a given barcode
RowsOf(loans, barcode) == {j \in 1..Len(loans) : loans[j].barcode = barcode}
\* the table is as the claim takes it to be: every row has a due date, and
\* no two rows have one barcode
OneRowPerBarcode(loans) ==
    /\ \A j \in 1..Len(loans) : loans[j].due_date /= None
    /\ \A j, k \in 1..Len(loans) : loans[j].barcode = loans[k].barcode => j = k

\* C26: when renew_books has posted and returned, and the loans table of
\* the answer has one row per barcode, each with a due date, the
\* new_due_date of every RenewalResult is the due date of the row that has
\* the barcode of the result's book, and None exactly when there is no such
\* row.
C26_NewDueDate ==
    (/\ call.op = "renew_books"
     /\ call.outcome = "ok"
     /\ call.requests = 1
     /\ OneRowPerBarcode(call.loans)) =>
        \A i \in 1..Len(call.results) :
            LET rows == RowsOf(call.loans, call.results[i].book.barcode) IN
            IF rows = {} THEN call.results[i].new_due_date = None
            ELSE \E j \in rows : call.results[i].new_due_date = call.loans[j].due_date


\* LibrarySearchInfo(...) as search() of the aggregator builds it from the
\* SearchResults a client's search returned
LibrarySearchInfo(slug, results) ==
    [library_slug |-> slug, total_count |-> results.total_count,
     fetched_count |-> Len(results.items)]
\* LibrarySearchInfo.has_more
has_more(info) == info.total_count > info.fetched_count
\* get_warnings: the slugs it has a line for
get_warnings(library_info) ==
    {library_info[i].library_slug :
        i \in {j \in 1..Len(library_info) : has_more(library_info[j])}}

\* C27: the LibrarySearchInfo made of what a client's search returned has
\* 0 <= fetched_count <= total_count, whatever pages the portal served, and
\* get_warnings names the portal exactly when total_count exceeds
\* fetched_count.
C27_Counts ==
    (call.op = "search" /\ call.outcome = "ok") =>
        LET info == LibrarySearchInfo("a", [items |-> call.items,
                                            total_count |-> call.total_count])
        IN  /\ 0 <= info.fetched_count
            /\ info.fetched_count <= info.total_count
            /\ "a" \in get_warnings(<<info>>) <=>
                  info.total_count > info.fetched_count


\* the search under way or just ended: its locals
Paging == srch.phase = "paging"
SearchSeen == IF Paging THEN srch ELSE call
RECURSIVE CountItems(_)
CountItems(pages) ==
    IF pages = <<>> THEN 0 ELSE Len(Head(pages)) + CountItems(Tail(pages))

\* the requests of the page loop so far are as the loop allows
PageLoopSafe ==
    (call.op = "search" /\ (Paging \/ call.outcome /= "pending")) =>
        LET st == SearchSeen IN
        /\ \A k \in 1..Len(st.offsets) :
              \* the k-th follow-up request is for page k + 1
              /\ st.offsets[k] = k * PageSize
              \* it was made with fewer than max_results items at hand
              /\ k <= Len(st.fetched) =>
                    CountItems(SubSeq(st.fetched, 1, k)) < st.max_results
              \* and after no page without items
              /\ \A j \in 2..k : j <= Len(st.fetched) => st.fetched[j] /= <<>>
        /\ Len(st.offsets) <= Max(0, st.total_pages - 1)
        /\ (st.fetched /= <<>> /\ (Len(st.fetched[1]) >= st.max_results
                                    \/ st.total_pages <= 1)) =>
              st.offsets = <<>>

\* C28: the page loop of search() requests the follow-up pages 2, 3, ... in
\* this order, each once, page n at offset (n - 1) x 20, at most
\* total_pages - 1 of them; none when the first page holds max_results items
\* or reports one page, none once max_results items are at hand, none after
\* a page without items; and a search that entered the loop leaves it.
C28_PageLoop == []PageLoopSafe /\ (Paging ~> ~Paging)

\* a search that asked for pages 2 and 3 and got its max_results items
C28_Witness ==
    /\ call.op = "search"
    /\ call.outcome = "ok"
    /\ call.offsets = <<PageSize, 2 * PageSize>>
    /\ Len(call.items) = call.max_results


\* a login() that raised left the flag and the stored credentials alone
FailedLoginFrame ==
    (call.op = "login" /\ call.outcome /= "ok") =>
        /\ logged_in = call.logged_in_before
        /\ username = call.username_before
        /\ password = call.password_before

\* the flag is set by nothing but a login() that returns True
FlagSetByLogin ==
    (~logged_in /\ logged_in') =>
        (call'.op = "login" /\ call'.outcome = "ok")

\* C29: a login() that raises (LoginError for missing credentials, an error
\* banner or a login form still there, or a transport error) leaves the
\* logged-in flag and the stored username and password as they were, so a
\* logged-in client stays logged in after a failed re-login; the flag turns
\* true only in a login() that returns True.
C29_FailedLogin == []FailedLoginFrame /\ [][FlagSetByLogin]_vars

\* a logged-in client whose re-login with another user name was answered
\* with an error and which is still logged in with the old one
C29_Witness ==
    /\ call.op = "login"
    /\ call.outcome = "LoginError"
    /\ call.requests = 2
    /\ call.logged_in_before
    /\ logged_in
    /\ Truthy(call.args.username) /\ call.args.username /= username
    /\ Truthy(username) /\ Truthy(password)


---------------------------------------------------------------------------
(* One aggregator, several calls under way at once                         *)

\* Every call of an aggregator is a coroutine: between two of its awaits it
\* runs alone, at an await any other call on the same aggregator may run.
\* The tasks of login_all, of search, of get_combined_details and of the
\* get_all_ calls are started one by one here, as gather starts them, and
\* so are calls of login() by hand.

\* the clients one id gets in a run at most
MaxMade == 2

\* the portals of the SearchAggregator
InflightSlugs == <<"a", "b">>

\* the ids the aggregator has clients for: portal ids or account ids
InflightKeys ==
    IF owner = "SearchAggregator" THEN InflightSlugs
    ELSE [i \in 1..Len(accounts) |-> account_id(accounts[i])]
InflightIds == 1..Len(InflightKeys)
Owned(key) == \E j \in 1..Len(owned) : owned[j] = key

\* the tasks that call _get_or_create_client, per aggregator
CreatingOps ==
    IF owner = "SearchAggregator" THEN {"search_library", "fetch_details"}
    ELSE {"login"}

NoTask == [pc |-> "idle", client |-> 0]

\* the accounts of the LibraryAggregator
InflightAccountLists == {<<AccountA, AccountB>>}

\* how client.login can end for the aggregator, which passes a user name and
\* a password
LoginOutcomes ==
    {IF page.http /= "ok" THEN "HTTPError" ELSE LoginVerdict(page) :
        page \in LoginPages}

\* the client's flag after a fetch, by the flag before it
FlagsAfterFetch ==
    [flag \in BOOLEAN |-> {Fetch(flag, resp).logged_in : resp \in Responses}]

InitInflight ==
    /\ IdleAggregator
    /\ IdleClient
    /\ IdleFn
    /\ owner \in {"SearchAggregator", "LibraryAggregator"}
    /\ accounts \in (IF owner = "LibraryAggregator" THEN InflightAccountLists
                      ELSE {<<>>})
    /\ owned = <<>>
    /\ session = {}
    /\ agg_logged_in = {}
    /\ fan = NoFan
    /\ inflight = [close |-> "idle", skipped |-> "none",
                   tasks |-> [i \in InflightIds |->
                                 [login |-> NoTask, fetch |-> NoTask,
                                  search_library |-> NoTask,
                                  fetch_details |-> NoTask,
                                  \* history: the clients made for the id, in
                                  \* all and since _clients was last cleared
                                  made |-> 0, since_clear |-> 0]]]

\* LibraryAggregator.login, and the tasks search_library of search() and
\* fetch_details of get_combined_details, up to their await: the client is
\* looked up or made. The client a task holds is told by its number among
\* the clients made for the id.
ClientTaskBegin(i, op) ==
    /\ op \in CreatingOps
    /\ inflight.tasks[i][op].pc = "idle"
    /\ LET t == inflight.tasks[i]
           keys == _get_or_create_client(owned, InflightKeys[i])
           creates == Len(keys) > Len(owned)
           made == IF creates THEN t.made + 1 ELSE t.made
       IN  /\ creates => t.made < MaxMade
           /\ owned' = keys
           /\ inflight' = [inflight EXCEPT
                  !.tasks[i][op] = [pc |-> "waiting", client |-> made],
                  !.tasks[i].made = made,
                  !.tasks[i].since_clear = IF creates THEN @ + 1 ELSE @]
    /\ UNCHANGED <<owner, accounts, session, agg_logged_in, fan>>
    /\ UNCHANGED <<aggVars, clientVars, fnCall>>

\* the task holds the client that is in _clients now
HoldsCurrent(i, op) ==
    /\ Owned(InflightKeys[i])
    /\ inflight.tasks[i][op].client = inflight.tasks[i].made

\* client.login returns or raises: LibraryAggregator.login adds the id to
\* _logged_in when it returned
LoginEnd(i) ==
    /\ owner = "LibraryAggregator"
    /\ inflight.tasks[i].login.pc = "waiting"
    /\ \E outcome \in LoginOutcomes :
          LET key == InflightKeys[i] IN
          /\ agg_logged_in' = IF outcome = "ok" THEN agg_logged_in \cup {key}
                              ELSE agg_logged_in
          /\ session' = IF outcome = "ok" /\ HoldsCurrent(i, "login")
                        THEN session \cup {key} ELSE session
    /\ inflight' = [inflight EXCEPT !.tasks[i].login = NoTask]
    /\ UNCHANGED <<owner, accounts, owned, fan>>
    /\ UNCHANGED <<aggVars, clientVars, fnCall>>

\* the client's search or get_book_details returns or raises
UseEnd(i, op) ==
    /\ owner = "SearchAggregator"
    /\ inflight.tasks[i][op].pc = "waiting"
    /\ inflight' = [inflight EXCEPT !.tasks[i][op] = NoTask]
    /\ UNCHANGED <<owner, accounts, owned, session, agg_logged_in, fan>>
    /\ UNCHANGED <<aggVars, clientVars, fnCall>>

\* fetch_books_for_account and fetch_history_for_account up to the await,
\* or to their return for an id that is not in _logged_in or has no client;
\* skipped tells how the last of them went
FetchBegin(i) ==
    /\ owner = "LibraryAggregator"
    /\ inflight.tasks[i].fetch.pc = "idle"
    /\ LET key == InflightKeys[i] IN
       inflight' =
           IF key \notin agg_logged_in
           THEN [inflight EXCEPT !.skipped = "not_logged_in"]
           ELSE IF ~Owned(key)
           THEN [inflight EXCEPT !.skipped = "no_client"]
           ELSE [inflight EXCEPT !.skipped = "none",
                                 !.tasks[i].fetch =
                                     [pc |-> "waiting",
                                      client |-> inflight.tasks[i].made]]
    /\ UNCHANGED <<owner, accounts, owned, session, agg_logged_in, fan>>
    /\ UNCHANGED <<aggVars, clientVars, fnCall>>

\* the client's fetch returns or raises; a client that finds its session
\* expired clears its own flag
FetchEnd(i) ==
    /\ owner = "LibraryAggregator"
    /\ inflight.tasks[i].fetch.pc = "waiting"
    /\ LET key == InflightKeys[i] IN
       \E flag \in FlagsAfterFetch[(key \in session)] :
          session' = IF HoldsCurrent(i, "fetch") /\ ~flag
                     THEN session \ {key} ELSE session
    /\ inflight' = [inflight EXCEPT !.tasks[i].fetch = NoTask]
    /\ UNCHANGED <<owner, accounts, owned, agg_logged_in, fan>>
    /\ UNCHANGED <<aggVars, clientVars, fnCall>>

\* self._clients.clear(), and self._logged_in.clear() in LibraryAggregator
Cleared ==
    /\ owned' = <<>>
    /\ session' = {}
    /\ agg_logged_in' = {}

\* close() up to the gather of the clients' close(), or to its return when
\* it has no client
CloseBegin ==
    /\ inflight.close = "idle"
    /\ IF owned = <<>>
       THEN /\ Cleared
            /\ inflight' = [inflight EXCEPT
                   !.tasks = [i \in InflightIds |->
                                 [@[i] EXCEPT !.since_clear = 0]]]
       ELSE /\ inflight' = [inflight EXCEPT !.close = "waiting"]
            /\ UNCHANGED <<owned, session, agg_logged_in>>
    /\ UNCHANGED <<owner, accounts, fan>>
    /\ UNCHANGED <<aggVars, clientVars, fnCall>>

\* the gather of close() is complete: the maps are cleared
CloseEnd ==
    /\ inflight.close = "waiting"
    /\ Cleared
    /\ inflight' = [inflight EXCEPT
           !.close = "idle",
           !.tasks = [i \in InflightIds |-> [@[i] EXCEPT !.since_clear = 0]]]
    /\ UNCHANGED <<owner, accounts, fan>>
    /\ UNCHANGED <<aggVars, clientVars, fnCall>>

NextInflight ==
    \/ \E i \in InflightIds : ClientTaskBegin(i, "login")
    \/ \E i \in InflightIds : ClientTaskBegin(i, "search_library")
    \/ \E i \in InflightIds : ClientTaskBegin(i, "fetch_details")
    \/ \E i \in InflightIds : LoginEnd(i)
    \/ \E i \in InflightIds : UseEnd(i, "search_library")
    \/ \E i \in InflightIds : UseEnd(i, "fetch_details")
    \/ \E i \in InflightIds : FetchBegin(i)
    \/ \E i \in InflightIds : FetchEnd(i)
    \/ CloseBegin
    \/ CloseEnd

SpecInflight == InitInflight /\ [][NextInflight]_vars


---------------------------------------------------------------------------
(* Claims about an aggregator with several calls under way                 *)

TaskOps == {"login", "fetch", "search_library", "fetch_details"}

\* C22: over the whole life of an aggregator, through any calls of search,
\* get_combined_details, login, the fetches and close and through the tasks
\* of one fan-out, at most one client is made for a portal id or account id.
C22_OneClientPerId ==
    \A i \in DOMAIN inflight.tasks : inflight.tasks[i].made <= 1

\* _clients has one entry per id at most, and it is the one client made for
\* the id since _clients was last cleared
OneClientSinceClear ==
    \A i \in DOMAIN inflight.tasks :
        /\ inflight.tasks[i].since_clear =
              IF Owned(InflightKeys[i]) THEN 1 ELSE 0
        /\ Cardinality({j \in 1..Len(owned) : owned[j] = InflightKeys[i]}) <= 1

\* a task that starts on an id that has a client makes none and holds the
\* one that is there
StartReuses ==
    \A i \in DOMAIN inflight.tasks : \A op \in TaskOps :
        (/\ Owned(InflightKeys[i])
         /\ inflight.tasks[i][op].pc = "idle"
         /\ inflight'.tasks[i][op].pc = "waiting") =>
            /\ owned' = owned
            /\ inflight'.tasks[i].made = inflight.tasks[i].made
            /\ inflight'.tasks[i][op].client = inflight.tasks[i].made

\* C22, amended: between two clearings of _clients (construction, and the
\* end of every close()) at most one client is made per id, also by the
\* concurrent tasks of one fan-out, and every task that starts on an id in
\* _clients gets the client that is there.
C22_OneClientPerIdAmended == []OneClientSinceClear /\ [][StartReuses]_vars

\* an id on its second client, after a close(), with two tasks under way
\* that hold this client
C22_Witness ==
    \E i \in DOMAIN inflight.tasks : \E op1, op2 \in TaskOps :
        /\ op1 /= op2
        /\ inflight.tasks[i].made = 2
        /\ inflight.tasks[i].since_clear = 1
        /\ inflight.tasks[i][op1] = [pc |-> "waiting", client |-> 2]
        /\ inflight.tasks[i][op2] = [pc |-> "waiting", client |-> 2]

\* C30: in every state of a LibraryAggregator, however login, login_all,
\* close and the fetches interleave at their awaits, every id in _logged_in
\* has a client in _clients, and no fetch skips an id that is in _logged_in
\* because it has no client.
C30_LoggedInHasClient ==
    /\ \A key \in agg_logged_in : Owned(key)
    /\ inflight.skipped /= "no_client"

=============================================================================
